---- MODULE Spec2Model ----
(***************************************************************************)
(* serkey: user-mode serial keyboard driver.  One byte read from the tty   *)
(* is looked up in keymap[appConfig.keymap][byte] and expanded by emitKey  *)
(* into a sequence of input_event writes to the uinput device.             *)
(*                                                                         *)
(* The model follows main(): parseCommandLine, daemon, openSerial,         *)
(* connectUinput, then the read/emitKey loop; every exit goes through      *)
(* exitApp.  Each write() of emit() is one step, so that a failed write    *)
(* can interrupt emitKey between two events.                               *)
(***************************************************************************)
EXTENDS Integers, Sequences, FiniteSets, TLC

\* ------------------------------------------------------------------ bounds
\* longest command line explored (arguments after argv[0])
MaxArgs == 2

\* ------------------------------------------------- constants of the program
KEYMAPS == 4
KEYS_PER_MAP == 256

KEYMAP_KAYPRO == 0
KEYMAP_ASCII == 1
\* an enumerator past the last row of keymap
KEYMAP_MEDIA_KEYS_PastEnd == KEYMAPS
KEYMAP_MEDIA_KEYS == 2
KEYMAP_CUSTOM == 3

\* <linux/input-event-codes.h>
EV_SYN == 0
EV_KEY == 1
SYN_REPORT == 0
KEY_RESERVED == 0
KEY_ESC == 1
KEY_1 == 2
KEY_2 == 3
KEY_3 == 4
KEY_4 == 5
KEY_5 == 6
KEY_6 == 7
KEY_7 == 8
KEY_8 == 9
KEY_9 == 10
KEY_0 == 11
KEY_MINUS == 12
KEY_EQUAL == 13
KEY_BACKSPACE == 14
KEY_TAB == 15
KEY_Q == 16
KEY_W == 17
KEY_E == 18
KEY_R == 19
KEY_T == 20
KEY_Y == 21
KEY_U == 22
KEY_I == 23
KEY_O == 24
KEY_P == 25
KEY_LEFTBRACE == 26
KEY_RIGHTBRACE == 27
KEY_ENTER == 28
KEY_LEFTCTRL == 29
KEY_A == 30
KEY_S == 31
KEY_D == 32
KEY_F == 33
KEY_G == 34
KEY_H == 35
KEY_J == 36
KEY_K == 37
KEY_L == 38
KEY_SEMICOLON == 39
KEY_APOSTROPHE == 40
KEY_GRAVE == 41
KEY_LEFTSHIFT == 42
KEY_BACKSLASH == 43
KEY_Z == 44
KEY_X == 45
KEY_C == 46
KEY_V == 47
KEY_B == 48
KEY_N == 49
KEY_M == 50
KEY_COMMA == 51
KEY_DOT == 52
KEY_SLASH == 53
KEY_SPACE == 57
KEY_KP7 == 71
KEY_KP8 == 72
KEY_KP9 == 73
KEY_KPMINUS == 74
KEY_KP4 == 75
KEY_KP5 == 76
KEY_KP6 == 77
KEY_KP1 == 79
KEY_KP2 == 80
KEY_KP3 == 81
KEY_KP0 == 82
KEY_KPDOT == 83
KEY_KPENTER == 96
KEY_LINEFEED == 101
KEY_UP == 103
KEY_LEFT == 105
KEY_RIGHT == 106
KEY_DOWN == 108
KEY_DELETE == 111
KEY_MUTE == 113
KEY_VOLUMEDOWN == 114
KEY_VOLUMEUP == 115
KEY_KPCOMMA == 121
KEY_FORWARD == 159
KEY_CLOSECD == 160
KEY_EJECTCD == 161
KEY_EJECTCLOSECD == 162
KEY_NEXTSONG == 163
KEY_PLAYPAUSE == 164
KEY_PREVIOUSSONG == 165
KEY_STOPCD == 166
KEY_RECORD == 167
KEY_REWIND == 168
KEY_PLAYCD == 200
KEY_PAUSECD == 201
KEY_CANCEL == 223

\* keymap_t: one entry of a key map
E(k, c, s, m) == [key |-> k, control |-> c, shift |-> s, makebreak |-> m]

keymap ==
  <<
  <<
    E(KEY_RESERVED, FALSE, FALSE, TRUE),  \* 0
    E(KEY_A, TRUE, FALSE, TRUE),  \* 1
    E(KEY_B, TRUE, FALSE, TRUE),  \* 2
    E(KEY_C, TRUE, FALSE, TRUE),  \* 3
    E(KEY_D, TRUE, FALSE, TRUE),  \* 4
    E(KEY_E, TRUE, FALSE, TRUE),  \* 5
    E(KEY_F, TRUE, FALSE, TRUE),  \* 6
    E(KEY_G, TRUE, FALSE, TRUE),  \* 7
    E(KEY_BACKSPACE, FALSE, FALSE, TRUE),  \* 8
    E(KEY_TAB, FALSE, FALSE, TRUE),  \* 9
    E(KEY_LINEFEED, FALSE, FALSE, TRUE),  \* 10
    E(KEY_K, TRUE, FALSE, TRUE),  \* 11
    E(KEY_L, TRUE, FALSE, TRUE),  \* 12
    E(KEY_ENTER, FALSE, FALSE, TRUE),  \* 13
    E(KEY_N, TRUE, FALSE, TRUE),  \* 14
    E(KEY_O, TRUE, FALSE, TRUE),  \* 15
    E(KEY_P, TRUE, FALSE, TRUE),  \* 16
    E(KEY_Q, TRUE, FALSE, TRUE),  \* 17
    E(KEY_R, TRUE, FALSE, TRUE),  \* 18
    E(KEY_S, TRUE, FALSE, TRUE),  \* 19
    E(KEY_T, TRUE, FALSE, TRUE),  \* 20
    E(KEY_U, TRUE, FALSE, TRUE),  \* 21
    E(KEY_V, TRUE, FALSE, TRUE),  \* 22
    E(KEY_W, TRUE, FALSE, TRUE),  \* 23
    E(KEY_CANCEL, FALSE, FALSE, TRUE),  \* 24
    E(KEY_Y, TRUE, FALSE, TRUE),  \* 25
    E(KEY_Z, TRUE, FALSE, TRUE),  \* 26
    E(KEY_ESC, FALSE, FALSE, TRUE),  \* 27
    E(KEY_BACKSLASH, TRUE, FALSE, TRUE),  \* 28
    E(KEY_RIGHTBRACE, TRUE, FALSE, TRUE),  \* 29
    E(KEY_6, TRUE, TRUE, TRUE),  \* 30
    E(KEY_MINUS, TRUE, TRUE, TRUE),  \* 31
    E(KEY_SPACE, FALSE, FALSE, TRUE),  \* 32
    E(KEY_1, FALSE, TRUE, TRUE),  \* 33
    E(KEY_APOSTROPHE, FALSE, TRUE, TRUE),  \* 34
    E(KEY_3, FALSE, TRUE, TRUE),  \* 35
    E(KEY_4, FALSE, TRUE, TRUE),  \* 36
    E(KEY_5, FALSE, TRUE, TRUE),  \* 37
    E(KEY_7, FALSE, TRUE, TRUE),  \* 38
    E(KEY_APOSTROPHE, FALSE, FALSE, TRUE),  \* 39
    E(KEY_9, FALSE, TRUE, TRUE),  \* 40
    E(KEY_0, FALSE, TRUE, TRUE),  \* 41
    E(KEY_8, FALSE, TRUE, TRUE),  \* 42
    E(KEY_EQUAL, FALSE, TRUE, TRUE),  \* 43
    E(KEY_COMMA, FALSE, FALSE, TRUE),  \* 44
    E(KEY_MINUS, FALSE, FALSE, TRUE),  \* 45
    E(KEY_DOT, FALSE, FALSE, TRUE),  \* 46
    E(KEY_SLASH, FALSE, FALSE, TRUE),  \* 47
    E(KEY_0, FALSE, FALSE, TRUE),  \* 48
    E(KEY_1, FALSE, FALSE, TRUE),  \* 49
    E(KEY_2, FALSE, FALSE, TRUE),  \* 50
    E(KEY_3, FALSE, FALSE, TRUE),  \* 51
    E(KEY_4, FALSE, FALSE, TRUE),  \* 52
    E(KEY_5, FALSE, FALSE, TRUE),  \* 53
    E(KEY_6, FALSE, FALSE, TRUE),  \* 54
    E(KEY_7, FALSE, FALSE, TRUE),  \* 55
    E(KEY_8, FALSE, FALSE, TRUE),  \* 56
    E(KEY_9, FALSE, FALSE, TRUE),  \* 57
    E(KEY_SEMICOLON, FALSE, TRUE, TRUE),  \* 58
    E(KEY_SEMICOLON, FALSE, FALSE, TRUE),  \* 59
    E(KEY_COMMA, FALSE, TRUE, TRUE),  \* 60
    E(KEY_EQUAL, FALSE, FALSE, TRUE),  \* 61
    E(KEY_DOT, FALSE, TRUE, TRUE),  \* 62
    E(KEY_SLASH, FALSE, TRUE, TRUE),  \* 63
    E(KEY_2, FALSE, TRUE, TRUE),  \* 64
    E(KEY_A, FALSE, TRUE, TRUE),  \* 65
    E(KEY_B, FALSE, TRUE, TRUE),  \* 66
    E(KEY_C, FALSE, TRUE, TRUE),  \* 67
    E(KEY_D, FALSE, TRUE, TRUE),  \* 68
    E(KEY_E, FALSE, TRUE, TRUE),  \* 69
    E(KEY_F, FALSE, TRUE, TRUE),  \* 70
    E(KEY_G, FALSE, TRUE, TRUE),  \* 71
    E(KEY_H, FALSE, TRUE, TRUE),  \* 72
    E(KEY_I, FALSE, TRUE, TRUE),  \* 73
    E(KEY_J, FALSE, TRUE, TRUE),  \* 74
    E(KEY_K, FALSE, TRUE, TRUE),  \* 75
    E(KEY_L, FALSE, TRUE, TRUE),  \* 76
    E(KEY_M, FALSE, TRUE, TRUE),  \* 77
    E(KEY_N, FALSE, TRUE, TRUE),  \* 78
    E(KEY_O, FALSE, TRUE, TRUE),  \* 79
    E(KEY_P, FALSE, TRUE, TRUE),  \* 80
    E(KEY_Q, FALSE, TRUE, TRUE),  \* 81
    E(KEY_R, FALSE, TRUE, TRUE),  \* 82
    E(KEY_S, FALSE, TRUE, TRUE),  \* 83
    E(KEY_T, FALSE, TRUE, TRUE),  \* 84
    E(KEY_U, FALSE, TRUE, TRUE),  \* 85
    E(KEY_V, FALSE, TRUE, TRUE),  \* 86
    E(KEY_W, FALSE, TRUE, TRUE),  \* 87
    E(KEY_X, FALSE, TRUE, TRUE),  \* 88
    E(KEY_Y, FALSE, TRUE, TRUE),  \* 89
    E(KEY_Z, FALSE, TRUE, TRUE),  \* 90
    E(KEY_LEFTBRACE, FALSE, FALSE, TRUE),  \* 91
    E(KEY_BACKSLASH, FALSE, FALSE, TRUE),  \* 92
    E(KEY_RIGHTBRACE, FALSE, FALSE, TRUE),  \* 93
    E(KEY_6, FALSE, TRUE, TRUE),  \* 94
    E(KEY_MINUS, FALSE, TRUE, TRUE),  \* 95
    E(KEY_GRAVE, FALSE, FALSE, TRUE),  \* 96
    E(KEY_A, FALSE, FALSE, TRUE),  \* 97
    E(KEY_B, FALSE, FALSE, TRUE),  \* 98
    E(KEY_C, FALSE, FALSE, TRUE),  \* 99
    E(KEY_D, FALSE, FALSE, TRUE),  \* 100
    E(KEY_E, FALSE, FALSE, TRUE),  \* 101
    E(KEY_F, FALSE, FALSE, TRUE),  \* 102
    E(KEY_G, FALSE, FALSE, TRUE),  \* 103
    E(KEY_H, FALSE, FALSE, TRUE),  \* 104
    E(KEY_I, FALSE, FALSE, TRUE),  \* 105
    E(KEY_J, FALSE, FALSE, TRUE),  \* 106
    E(KEY_K, FALSE, FALSE, TRUE),  \* 107
    E(KEY_L, FALSE, FALSE, TRUE),  \* 108
    E(KEY_M, FALSE, FALSE, TRUE),  \* 109
    E(KEY_N, FALSE, FALSE, TRUE),  \* 110
    E(KEY_O, FALSE, FALSE, TRUE),  \* 111
    E(KEY_P, FALSE, FALSE, TRUE),  \* 112
    E(KEY_Q, FALSE, FALSE, TRUE),  \* 113
    E(KEY_R, FALSE, FALSE, TRUE),  \* 114
    E(KEY_S, FALSE, FALSE, TRUE),  \* 115
    E(KEY_T, FALSE, FALSE, TRUE),  \* 116
    E(KEY_U, FALSE, FALSE, TRUE),  \* 117
    E(KEY_V, FALSE, FALSE, TRUE),  \* 118
    E(KEY_W, FALSE, FALSE, TRUE),  \* 119
    E(KEY_X, FALSE, FALSE, TRUE),  \* 120
    E(KEY_Y, FALSE, FALSE, TRUE),  \* 121
    E(KEY_Z, FALSE, FALSE, TRUE),  \* 122
    E(KEY_LEFTBRACE, FALSE, TRUE, TRUE),  \* 123
    E(KEY_BACKSLASH, FALSE, FALSE, TRUE),  \* 124
    E(KEY_RIGHTBRACE, FALSE, TRUE, TRUE),  \* 125
    E(KEY_GRAVE, FALSE, TRUE, TRUE),  \* 126
    E(KEY_DELETE, FALSE, FALSE, TRUE),  \* 127
    E(KEY_RESERVED, FALSE, FALSE, TRUE),  \* 128
    E(KEY_RESERVED, FALSE, FALSE, TRUE),  \* 129
    E(KEY_RESERVED, FALSE, FALSE, TRUE),  \* 130
    E(KEY_RESERVED, FALSE, FALSE, TRUE),  \* 131
    E(KEY_RESERVED, FALSE, FALSE, TRUE),  \* 132
    E(KEY_RESERVED, FALSE, FALSE, TRUE),  \* 133
    E(KEY_RESERVED, FALSE, FALSE, TRUE),  \* 134
    E(KEY_RESERVED, FALSE, FALSE, TRUE),  \* 135
    E(KEY_RESERVED, FALSE, FALSE, TRUE),  \* 136
    E(KEY_RESERVED, FALSE, FALSE, TRUE),  \* 137
    E(KEY_RESERVED, FALSE, FALSE, TRUE),  \* 138
    E(KEY_RESERVED, FALSE, FALSE, TRUE),  \* 139
    E(KEY_RESERVED, FALSE, FALSE, TRUE),  \* 140
    E(KEY_RESERVED, FALSE, FALSE, TRUE),  \* 141
    E(KEY_RESERVED, FALSE, FALSE, TRUE),  \* 142
    E(KEY_RESERVED, FALSE, FALSE, TRUE),  \* 143
    E(KEY_RESERVED, FALSE, FALSE, TRUE),  \* 144
    E(KEY_RESERVED, FALSE, FALSE, TRUE),  \* 145
    E(KEY_RESERVED, FALSE, FALSE, TRUE),  \* 146
    E(KEY_RESERVED, FALSE, FALSE, TRUE),  \* 147
    E(KEY_RESERVED, FALSE, FALSE, TRUE),  \* 148
    E(KEY_RESERVED, FALSE, FALSE, TRUE),  \* 149
    E(KEY_RESERVED, FALSE, FALSE, TRUE),  \* 150
    E(KEY_RESERVED, FALSE, FALSE, TRUE),  \* 151
    E(KEY_RESERVED, FALSE, FALSE, TRUE),  \* 152
    E(KEY_RESERVED, FALSE, FALSE, TRUE),  \* 153
    E(KEY_RESERVED, FALSE, FALSE, TRUE),  \* 154
    E(KEY_RESERVED, FALSE, FALSE, TRUE),  \* 155
    E(KEY_RESERVED, FALSE, FALSE, TRUE),  \* 156
    E(KEY_RESERVED, FALSE, FALSE, TRUE),  \* 157
    E(KEY_RESERVED, FALSE, FALSE, TRUE),  \* 158
    E(KEY_RESERVED, FALSE, FALSE, TRUE),  \* 159
    E(KEY_RESERVED, FALSE, FALSE, TRUE),  \* 160
    E(KEY_RESERVED, FALSE, FALSE, TRUE),  \* 161
    E(KEY_RESERVED, FALSE, FALSE, TRUE),  \* 162
    E(KEY_RESERVED, FALSE, FALSE, TRUE),  \* 163
    E(KEY_RESERVED, FALSE, FALSE, TRUE),  \* 164
    E(KEY_RESERVED, FALSE, FALSE, TRUE),  \* 165
    E(KEY_RESERVED, FALSE, FALSE, TRUE),  \* 166
    E(KEY_RESERVED, FALSE, FALSE, TRUE),  \* 167
    E(KEY_RESERVED, FALSE, FALSE, TRUE),  \* 168
    E(KEY_RESERVED, FALSE, FALSE, TRUE),  \* 169
    E(KEY_RESERVED, FALSE, FALSE, TRUE),  \* 170
    E(KEY_RESERVED, FALSE, FALSE, TRUE),  \* 171
    E(KEY_RESERVED, FALSE, FALSE, TRUE),  \* 172
    E(KEY_RESERVED, FALSE, FALSE, TRUE),  \* 173
    E(KEY_RESERVED, FALSE, FALSE, TRUE),  \* 174
    E(KEY_RESERVED, FALSE, FALSE, TRUE),  \* 175
    E(KEY_RESERVED, FALSE, FALSE, TRUE),  \* 176
    E(KEY_KP0, FALSE, FALSE, TRUE),  \* 177
    E(KEY_KPDOT, FALSE, FALSE, TRUE),  \* 178
    E(KEY_RESERVED, FALSE, FALSE, TRUE),  \* 179
    E(KEY_RESERVED, FALSE, FALSE, TRUE),  \* 180
    E(KEY_RESERVED, FALSE, FALSE, TRUE),  \* 181
    E(KEY_RESERVED, FALSE, FALSE, TRUE),  \* 182
    E(KEY_RESERVED, FALSE, FALSE, TRUE),  \* 183
    E(KEY_RESERVED, FALSE, FALSE, TRUE),  \* 184
    E(KEY_RESERVED, FALSE, FALSE, TRUE),  \* 185
    E(KEY_RESERVED, FALSE, FALSE, TRUE),  \* 186
    E(KEY_RESERVED, FALSE, FALSE, TRUE),  \* 187
    E(KEY_RESERVED, FALSE, FALSE, TRUE),  \* 188
    E(KEY_RESERVED, FALSE, FALSE, TRUE),  \* 189
    E(KEY_RESERVED, FALSE, FALSE, TRUE),  \* 190
    E(KEY_RESERVED, FALSE, FALSE, TRUE),  \* 191
    E(KEY_KP1, FALSE, FALSE, TRUE),  \* 192
    E(KEY_KP2, FALSE, FALSE, TRUE),  \* 193
    E(KEY_KP3, FALSE, FALSE, TRUE),  \* 194
    E(KEY_KPENTER, FALSE, FALSE, TRUE),  \* 195
    E(KEY_RESERVED, FALSE, FALSE, TRUE),  \* 196
    E(KEY_RESERVED, FALSE, FALSE, TRUE),  \* 197
    E(KEY_RESERVED, FALSE, FALSE, TRUE),  \* 198
    E(KEY_RESERVED, FALSE, FALSE, TRUE),  \* 199
    E(KEY_RESERVED, FALSE, FALSE, TRUE),  \* 200
    E(KEY_RESERVED, FALSE, FALSE, TRUE),  \* 201
    E(KEY_RESERVED, FALSE, FALSE, TRUE),  \* 202
    E(KEY_RESERVED, FALSE, FALSE, TRUE),  \* 203
    E(KEY_RESERVED, FALSE, FALSE, TRUE),  \* 204
    E(KEY_RESERVED, FALSE, FALSE, TRUE),  \* 205
    E(KEY_RESERVED, FALSE, FALSE, TRUE),  \* 206
    E(KEY_RESERVED, FALSE, FALSE, TRUE),  \* 207
    E(KEY_KP4, FALSE, FALSE, TRUE),  \* 208
    E(KEY_KP5, FALSE, FALSE, TRUE),  \* 209
    E(KEY_KP6, FALSE, FALSE, TRUE),  \* 210
    E(KEY_KPCOMMA, FALSE, FALSE, TRUE),  \* 211
    E(KEY_RESERVED, FALSE, FALSE, TRUE),  \* 212
    E(KEY_RESERVED, FALSE, FALSE, TRUE),  \* 213
    E(KEY_RESERVED, FALSE, FALSE, TRUE),  \* 214
    E(KEY_RESERVED, FALSE, FALSE, TRUE),  \* 215
    E(KEY_RESERVED, FALSE, FALSE, TRUE),  \* 216
    E(KEY_RESERVED, FALSE, FALSE, TRUE),  \* 217
    E(KEY_RESERVED, FALSE, FALSE, TRUE),  \* 218
    E(KEY_RESERVED, FALSE, FALSE, TRUE),  \* 219
    E(KEY_RESERVED, FALSE, FALSE, TRUE),  \* 220
    E(KEY_RESERVED, FALSE, FALSE, TRUE),  \* 221
    E(KEY_RESERVED, FALSE, FALSE, TRUE),  \* 222
    E(KEY_RESERVED, FALSE, FALSE, TRUE),  \* 223
    E(KEY_RESERVED, FALSE, FALSE, TRUE),  \* 224
    E(KEY_KP7, FALSE, FALSE, TRUE),  \* 225
    E(KEY_KP8, FALSE, FALSE, TRUE),  \* 226
    E(KEY_KP9, FALSE, FALSE, TRUE),  \* 227
    E(KEY_KPMINUS, FALSE, FALSE, TRUE),  \* 228
    E(KEY_RESERVED, FALSE, FALSE, TRUE),  \* 229
    E(KEY_RESERVED, FALSE, FALSE, TRUE),  \* 230
    E(KEY_RESERVED, FALSE, FALSE, TRUE),  \* 231
    E(KEY_RESERVED, FALSE, FALSE, TRUE),  \* 232
    E(KEY_RESERVED, FALSE, FALSE, TRUE),  \* 233
    E(KEY_RESERVED, FALSE, FALSE, TRUE),  \* 234
    E(KEY_RESERVED, FALSE, FALSE, TRUE),  \* 235
    E(KEY_RESERVED, FALSE, FALSE, TRUE),  \* 236
    E(KEY_RESERVED, FALSE, FALSE, TRUE),  \* 237
    E(KEY_RESERVED, FALSE, FALSE, TRUE),  \* 238
    E(KEY_RESERVED, FALSE, FALSE, TRUE),  \* 239
    E(KEY_RESERVED, FALSE, FALSE, TRUE),  \* 240
    E(KEY_UP, FALSE, FALSE, TRUE),  \* 241
    E(KEY_DOWN, FALSE, FALSE, TRUE),  \* 242
    E(KEY_LEFT, FALSE, FALSE, TRUE),  \* 243
    E(KEY_RIGHT, FALSE, FALSE, TRUE),  \* 244
    E(KEY_RESERVED, FALSE, FALSE, TRUE),  \* 245
    E(KEY_RESERVED, FALSE, FALSE, TRUE),  \* 246
    E(KEY_RESERVED, FALSE, FALSE, TRUE),  \* 247
    E(KEY_RESERVED, FALSE, FALSE, TRUE),  \* 248
    E(KEY_RESERVED, FALSE, FALSE, TRUE),  \* 249
    E(KEY_RESERVED, FALSE, FALSE, TRUE),  \* 250
    E(KEY_RESERVED, FALSE, FALSE, TRUE),  \* 251
    E(KEY_RESERVED, FALSE, FALSE, TRUE),  \* 252
    E(KEY_RESERVED, FALSE, FALSE, TRUE),  \* 253
    E(KEY_RESERVED, FALSE, FALSE, TRUE),  \* 254
    E(KEY_RESERVED, FALSE, FALSE, TRUE)  \* 255
  >>,
  <<
    E(KEY_RESERVED, FALSE, FALSE, FALSE),  \* 0
    E(KEY_A, TRUE, FALSE, FALSE),  \* 1
    E(KEY_B, TRUE, FALSE, FALSE),  \* 2
    E(KEY_C, TRUE, FALSE, FALSE),  \* 3
    E(KEY_D, TRUE, FALSE, FALSE),  \* 4
    E(KEY_E, TRUE, FALSE, FALSE),  \* 5
    E(KEY_F, TRUE, FALSE, FALSE),  \* 6
    E(KEY_G, TRUE, FALSE, FALSE),  \* 7
    E(KEY_H, TRUE, FALSE, FALSE),  \* 8
    E(KEY_I, TRUE, FALSE, FALSE),  \* 9
    E(KEY_J, TRUE, FALSE, FALSE),  \* 10
    E(KEY_K, TRUE, FALSE, FALSE),  \* 11
    E(KEY_L, TRUE, FALSE, FALSE),  \* 12
    E(KEY_M, TRUE, FALSE, FALSE),  \* 13
    E(KEY_N, TRUE, FALSE, FALSE),  \* 14
    E(KEY_O, TRUE, FALSE, FALSE),  \* 15
    E(KEY_P, TRUE, FALSE, FALSE),  \* 16
    E(KEY_Q, TRUE, FALSE, FALSE),  \* 17
    E(KEY_R, TRUE, FALSE, FALSE),  \* 18
    E(KEY_S, TRUE, FALSE, FALSE),  \* 19
    E(KEY_T, TRUE, FALSE, FALSE),  \* 20
    E(KEY_U, TRUE, FALSE, FALSE),  \* 21
    E(KEY_V, TRUE, FALSE, FALSE),  \* 22
    E(KEY_W, TRUE, FALSE, FALSE),  \* 23
    E(KEY_X, TRUE, FALSE, FALSE),  \* 24
    E(KEY_Y, TRUE, FALSE, FALSE),  \* 25
    E(KEY_Z, TRUE, FALSE, FALSE),  \* 26
    E(KEY_LEFTBRACE, TRUE, FALSE, FALSE),  \* 27
    E(KEY_BACKSLASH, TRUE, FALSE, FALSE),  \* 28
    E(KEY_RIGHTBRACE, TRUE, FALSE, FALSE),  \* 29
    E(KEY_6, TRUE, TRUE, FALSE),  \* 30
    E(KEY_MINUS, TRUE, TRUE, FALSE),  \* 31
    E(KEY_SPACE, FALSE, FALSE, FALSE),  \* 32
    E(KEY_1, FALSE, TRUE, FALSE),  \* 33
    E(KEY_APOSTROPHE, FALSE, TRUE, FALSE),  \* 34
    E(KEY_3, FALSE, TRUE, FALSE),  \* 35
    E(KEY_4, FALSE, TRUE, FALSE),  \* 36
    E(KEY_5, FALSE, TRUE, FALSE),  \* 37
    E(KEY_7, FALSE, TRUE, FALSE),  \* 38
    E(KEY_APOSTROPHE, FALSE, FALSE, FALSE),  \* 39
    E(KEY_9, FALSE, TRUE, FALSE),  \* 40
    E(KEY_0, FALSE, TRUE, FALSE),  \* 41
    E(KEY_8, FALSE, TRUE, FALSE),  \* 42
    E(KEY_EQUAL, FALSE, TRUE, FALSE),  \* 43
    E(KEY_COMMA, FALSE, FALSE, FALSE),  \* 44
    E(KEY_MINUS, FALSE, TRUE, FALSE),  \* 45
    E(KEY_DOT, FALSE, FALSE, FALSE),  \* 46
    E(KEY_SLASH, FALSE, FALSE, FALSE),  \* 47
    E(KEY_0, FALSE, FALSE, FALSE),  \* 48
    E(KEY_1, FALSE, FALSE, FALSE),  \* 49
    E(KEY_2, FALSE, FALSE, FALSE),  \* 50
    E(KEY_3, FALSE, FALSE, FALSE),  \* 51
    E(KEY_4, FALSE, FALSE, FALSE),  \* 52
    E(KEY_5, FALSE, FALSE, FALSE),  \* 53
    E(KEY_6, FALSE, FALSE, FALSE),  \* 54
    E(KEY_7, FALSE, FALSE, FALSE),  \* 55
    E(KEY_8, FALSE, FALSE, FALSE),  \* 56
    E(KEY_9, FALSE, FALSE, FALSE),  \* 57
    E(KEY_SEMICOLON, FALSE, TRUE, FALSE),  \* 58
    E(KEY_SEMICOLON, FALSE, FALSE, FALSE),  \* 59
    E(KEY_COMMA, FALSE, TRUE, FALSE),  \* 60
    E(KEY_EQUAL, FALSE, FALSE, FALSE),  \* 61
    E(KEY_DOT, FALSE, TRUE, FALSE),  \* 62
    E(KEY_SLASH, FALSE, TRUE, FALSE),  \* 63
    E(KEY_2, FALSE, TRUE, FALSE),  \* 64
    E(KEY_A, FALSE, TRUE, FALSE),  \* 65
    E(KEY_B, FALSE, TRUE, FALSE),  \* 66
    E(KEY_C, FALSE, TRUE, FALSE),  \* 67
    E(KEY_D, FALSE, TRUE, FALSE),  \* 68
    E(KEY_E, FALSE, TRUE, FALSE),  \* 69
    E(KEY_F, FALSE, TRUE, FALSE),  \* 70
    E(KEY_G, FALSE, TRUE, FALSE),  \* 71
    E(KEY_H, FALSE, TRUE, FALSE),  \* 72
    E(KEY_I, FALSE, TRUE, FALSE),  \* 73
    E(KEY_J, FALSE, TRUE, FALSE),  \* 74
    E(KEY_K, FALSE, TRUE, FALSE),  \* 75
    E(KEY_L, FALSE, TRUE, FALSE),  \* 76
    E(KEY_M, FALSE, TRUE, FALSE),  \* 77
    E(KEY_N, FALSE, TRUE, FALSE),  \* 78
    E(KEY_O, FALSE, TRUE, FALSE),  \* 79
    E(KEY_P, FALSE, TRUE, FALSE),  \* 80
    E(KEY_Q, FALSE, TRUE, FALSE),  \* 81
    E(KEY_R, FALSE, TRUE, FALSE),  \* 82
    E(KEY_S, FALSE, TRUE, FALSE),  \* 83
    E(KEY_T, FALSE, TRUE, FALSE),  \* 84
    E(KEY_U, FALSE, TRUE, FALSE),  \* 85
    E(KEY_V, FALSE, TRUE, FALSE),  \* 86
    E(KEY_W, FALSE, TRUE, FALSE),  \* 87
    E(KEY_X, FALSE, TRUE, FALSE),  \* 88
    E(KEY_Y, FALSE, TRUE, FALSE),  \* 89
    E(KEY_Z, FALSE, TRUE, FALSE),  \* 90
    E(KEY_LEFTBRACE, FALSE, FALSE, FALSE),  \* 91
    E(KEY_BACKSLASH, FALSE, FALSE, FALSE),  \* 92
    E(KEY_RIGHTBRACE, FALSE, FALSE, FALSE),  \* 93
    E(KEY_6, FALSE, TRUE, FALSE),  \* 94
    E(KEY_MINUS, FALSE, TRUE, FALSE),  \* 95
    E(KEY_GRAVE, FALSE, FALSE, FALSE),  \* 96
    E(KEY_A, FALSE, FALSE, FALSE),  \* 97
    E(KEY_B, FALSE, FALSE, FALSE),  \* 98
    E(KEY_C, FALSE, FALSE, FALSE),  \* 99
    E(KEY_D, FALSE, FALSE, FALSE),  \* 100
    E(KEY_E, FALSE, FALSE, FALSE),  \* 101
    E(KEY_F, FALSE, FALSE, FALSE),  \* 102
    E(KEY_G, FALSE, FALSE, FALSE),  \* 103
    E(KEY_H, FALSE, FALSE, FALSE),  \* 104
    E(KEY_I, FALSE, FALSE, FALSE),  \* 105
    E(KEY_J, FALSE, FALSE, FALSE),  \* 106
    E(KEY_K, FALSE, FALSE, FALSE),  \* 107
    E(KEY_L, FALSE, FALSE, FALSE),  \* 108
    E(KEY_M, FALSE, FALSE, FALSE),  \* 109
    E(KEY_N, FALSE, FALSE, FALSE),  \* 110
    E(KEY_O, FALSE, FALSE, FALSE),  \* 111
    E(KEY_P, FALSE, FALSE, FALSE),  \* 112
    E(KEY_Q, FALSE, FALSE, FALSE),  \* 113
    E(KEY_R, FALSE, FALSE, FALSE),  \* 114
    E(KEY_S, FALSE, FALSE, FALSE),  \* 115
    E(KEY_T, FALSE, FALSE, FALSE),  \* 116
    E(KEY_U, FALSE, FALSE, FALSE),  \* 117
    E(KEY_V, FALSE, FALSE, FALSE),  \* 118
    E(KEY_W, FALSE, FALSE, FALSE),  \* 119
    E(KEY_X, FALSE, FALSE, FALSE),  \* 120
    E(KEY_Y, FALSE, FALSE, FALSE),  \* 121
    E(KEY_Z, FALSE, FALSE, FALSE),  \* 122
    E(KEY_LEFTBRACE, FALSE, TRUE, FALSE),  \* 123
    E(KEY_BACKSLASH, FALSE, FALSE, FALSE),  \* 124
    E(KEY_RIGHTBRACE, FALSE, TRUE, FALSE),  \* 125
    E(KEY_GRAVE, FALSE, TRUE, FALSE),  \* 126
    E(KEY_DELETE, FALSE, FALSE, FALSE),  \* 127
    E(KEY_RESERVED, FALSE, FALSE, FALSE),  \* 128
    E(KEY_RESERVED, FALSE, FALSE, FALSE),  \* 129
    E(KEY_RESERVED, FALSE, FALSE, FALSE),  \* 130
    E(KEY_RESERVED, FALSE, FALSE, FALSE),  \* 131
    E(KEY_RESERVED, FALSE, FALSE, FALSE),  \* 132
    E(KEY_RESERVED, FALSE, FALSE, FALSE),  \* 133
    E(KEY_RESERVED, FALSE, FALSE, FALSE),  \* 134
    E(KEY_RESERVED, FALSE, FALSE, FALSE),  \* 135
    E(KEY_RESERVED, FALSE, FALSE, FALSE),  \* 136
    E(KEY_RESERVED, FALSE, FALSE, FALSE),  \* 137
    E(KEY_RESERVED, FALSE, FALSE, FALSE),  \* 138
    E(KEY_RESERVED, FALSE, FALSE, FALSE),  \* 139
    E(KEY_RESERVED, FALSE, FALSE, FALSE),  \* 140
    E(KEY_RESERVED, FALSE, FALSE, FALSE),  \* 141
    E(KEY_RESERVED, FALSE, FALSE, FALSE),  \* 142
    E(KEY_RESERVED, FALSE, FALSE, FALSE),  \* 143
    E(KEY_RESERVED, FALSE, FALSE, FALSE),  \* 144
    E(KEY_RESERVED, FALSE, FALSE, FALSE),  \* 145
    E(KEY_RESERVED, FALSE, FALSE, FALSE),  \* 146
    E(KEY_RESERVED, FALSE, FALSE, FALSE),  \* 147
    E(KEY_RESERVED, FALSE, FALSE, FALSE),  \* 148
    E(KEY_RESERVED, FALSE, FALSE, FALSE),  \* 149
    E(KEY_RESERVED, FALSE, FALSE, FALSE),  \* 150
    E(KEY_RESERVED, FALSE, FALSE, FALSE),  \* 151
    E(KEY_RESERVED, FALSE, FALSE, FALSE),  \* 152
    E(KEY_RESERVED, FALSE, FALSE, FALSE),  \* 153
    E(KEY_RESERVED, FALSE, FALSE, FALSE),  \* 154
    E(KEY_RESERVED, FALSE, FALSE, FALSE),  \* 155
    E(KEY_RESERVED, FALSE, FALSE, FALSE),  \* 156
    E(KEY_RESERVED, FALSE, FALSE, FALSE),  \* 157
    E(KEY_RESERVED, FALSE, FALSE, FALSE),  \* 158
    E(KEY_RESERVED, FALSE, FALSE, FALSE),  \* 159
    E(KEY_RESERVED, FALSE, FALSE, FALSE),  \* 160
    E(KEY_RESERVED, FALSE, FALSE, FALSE),  \* 161
    E(KEY_RESERVED, FALSE, FALSE, FALSE),  \* 162
    E(KEY_RESERVED, FALSE, FALSE, FALSE),  \* 163
    E(KEY_RESERVED, FALSE, FALSE, FALSE),  \* 164
    E(KEY_RESERVED, FALSE, FALSE, FALSE),  \* 165
    E(KEY_RESERVED, FALSE, FALSE, FALSE),  \* 166
    E(KEY_RESERVED, FALSE, FALSE, FALSE),  \* 167
    E(KEY_RESERVED, FALSE, FALSE, FALSE),  \* 168
    E(KEY_RESERVED, FALSE, FALSE, FALSE),  \* 169
    E(KEY_RESERVED, FALSE, FALSE, FALSE),  \* 170
    E(KEY_RESERVED, FALSE, FALSE, FALSE),  \* 171
    E(KEY_RESERVED, FALSE, FALSE, FALSE),  \* 172
    E(KEY_RESERVED, FALSE, FALSE, FALSE),  \* 173
    E(KEY_RESERVED, FALSE, FALSE, FALSE),  \* 174
    E(KEY_RESERVED, FALSE, FALSE, FALSE),  \* 175
    E(KEY_RESERVED, FALSE, FALSE, FALSE),  \* 176
    E(KEY_RESERVED, FALSE, FALSE, FALSE),  \* 177
    E(KEY_RESERVED, FALSE, FALSE, FALSE),  \* 178
    E(KEY_RESERVED, FALSE, FALSE, FALSE),  \* 179
    E(KEY_RESERVED, FALSE, FALSE, FALSE),  \* 180
    E(KEY_RESERVED, FALSE, FALSE, FALSE),  \* 181
    E(KEY_RESERVED, FALSE, FALSE, FALSE),  \* 182
    E(KEY_RESERVED, FALSE, FALSE, FALSE),  \* 183
    E(KEY_RESERVED, FALSE, FALSE, FALSE),  \* 184
    E(KEY_RESERVED, FALSE, FALSE, FALSE),  \* 185
    E(KEY_RESERVED, FALSE, FALSE, FALSE),  \* 186
    E(KEY_RESERVED, FALSE, FALSE, FALSE),  \* 187
    E(KEY_RESERVED, FALSE, FALSE, FALSE),  \* 188
    E(KEY_RESERVED, FALSE, FALSE, FALSE),  \* 189
    E(KEY_RESERVED, FALSE, FALSE, FALSE),  \* 190
    E(KEY_RESERVED, FALSE, FALSE, FALSE),  \* 191
    E(KEY_RESERVED, FALSE, FALSE, FALSE),  \* 192
    E(KEY_RESERVED, FALSE, FALSE, FALSE),  \* 193
    E(KEY_RESERVED, FALSE, FALSE, FALSE),  \* 194
    E(KEY_RESERVED, FALSE, FALSE, FALSE),  \* 195
    E(KEY_RESERVED, FALSE, FALSE, FALSE),  \* 196
    E(KEY_RESERVED, FALSE, FALSE, FALSE),  \* 197
    E(KEY_RESERVED, FALSE, FALSE, FALSE),  \* 198
    E(KEY_RESERVED, FALSE, FALSE, FALSE),  \* 199
    E(KEY_RESERVED, FALSE, FALSE, FALSE),  \* 200
    E(KEY_RESERVED, FALSE, FALSE, FALSE),  \* 201
    E(KEY_RESERVED, FALSE, FALSE, FALSE),  \* 202
    E(KEY_RESERVED, FALSE, FALSE, FALSE),  \* 203
    E(KEY_RESERVED, FALSE, FALSE, FALSE),  \* 204
    E(KEY_RESERVED, FALSE, FALSE, FALSE),  \* 205
    E(KEY_RESERVED, FALSE, FALSE, FALSE),  \* 206
    E(KEY_RESERVED, FALSE, FALSE, FALSE),  \* 207
    E(KEY_RESERVED, FALSE, FALSE, FALSE),  \* 208
    E(KEY_RESERVED, FALSE, FALSE, FALSE),  \* 209
    E(KEY_RESERVED, FALSE, FALSE, FALSE),  \* 210
    E(KEY_RESERVED, FALSE, FALSE, FALSE),  \* 211
    E(KEY_RESERVED, FALSE, FALSE, FALSE),  \* 212
    E(KEY_RESERVED, FALSE, FALSE, FALSE),  \* 213
    E(KEY_RESERVED, FALSE, FALSE, FALSE),  \* 214
    E(KEY_RESERVED, FALSE, FALSE, FALSE),  \* 215
    E(KEY_RESERVED, FALSE, FALSE, FALSE),  \* 216
    E(KEY_RESERVED, FALSE, FALSE, FALSE),  \* 217
    E(KEY_RESERVED, FALSE, FALSE, FALSE),  \* 218
    E(KEY_RESERVED, FALSE, FALSE, FALSE),  \* 219
    E(KEY_RESERVED, FALSE, FALSE, FALSE),  \* 220
    E(KEY_RESERVED, FALSE, FALSE, FALSE),  \* 221
    E(KEY_RESERVED, FALSE, FALSE, FALSE),  \* 222
    E(KEY_RESERVED, FALSE, FALSE, FALSE),  \* 223
    E(KEY_RESERVED, FALSE, FALSE, FALSE),  \* 224
    E(KEY_RESERVED, FALSE, FALSE, FALSE),  \* 225
    E(KEY_RESERVED, FALSE, FALSE, FALSE),  \* 226
    E(KEY_RESERVED, FALSE, FALSE, FALSE),  \* 227
    E(KEY_RESERVED, FALSE, FALSE, FALSE),  \* 228
    E(KEY_RESERVED, FALSE, FALSE, FALSE),  \* 229
    E(KEY_RESERVED, FALSE, FALSE, FALSE),  \* 230
    E(KEY_RESERVED, FALSE, FALSE, FALSE),  \* 231
    E(KEY_RESERVED, FALSE, FALSE, FALSE),  \* 232
    E(KEY_RESERVED, FALSE, FALSE, FALSE),  \* 233
    E(KEY_RESERVED, FALSE, FALSE, FALSE),  \* 234
    E(KEY_RESERVED, FALSE, FALSE, FALSE),  \* 235
    E(KEY_RESERVED, FALSE, FALSE, FALSE),  \* 236
    E(KEY_RESERVED, FALSE, FALSE, FALSE),  \* 237
    E(KEY_RESERVED, FALSE, FALSE, FALSE),  \* 238
    E(KEY_RESERVED, FALSE, FALSE, FALSE),  \* 239
    E(KEY_RESERVED, FALSE, FALSE, FALSE),  \* 240
    E(KEY_RESERVED, FALSE, FALSE, FALSE),  \* 241
    E(KEY_RESERVED, FALSE, FALSE, FALSE),  \* 242
    E(KEY_RESERVED, FALSE, FALSE, FALSE),  \* 243
    E(KEY_RESERVED, FALSE, FALSE, FALSE),  \* 244
    E(KEY_RESERVED, FALSE, FALSE, FALSE),  \* 245
    E(KEY_RESERVED, FALSE, FALSE, FALSE),  \* 246
    E(KEY_RESERVED, FALSE, FALSE, FALSE),  \* 247
    E(KEY_RESERVED, FALSE, FALSE, FALSE),  \* 248
    E(KEY_RESERVED, FALSE, FALSE, FALSE),  \* 249
    E(KEY_RESERVED, FALSE, FALSE, FALSE),  \* 250
    E(KEY_RESERVED, FALSE, FALSE, FALSE),  \* 251
    E(KEY_RESERVED, FALSE, FALSE, FALSE),  \* 252
    E(KEY_RESERVED, FALSE, FALSE, FALSE),  \* 253
    E(KEY_RESERVED, FALSE, FALSE, FALSE),  \* 254
    E(KEY_RESERVED, FALSE, FALSE, FALSE)  \* 255
  >>,
  <<
    E(KEY_MUTE, FALSE, FALSE, FALSE),  \* 0
    E(KEY_VOLUMEUP, FALSE, FALSE, FALSE),  \* 1
    E(KEY_VOLUMEDOWN, FALSE, FALSE, FALSE),  \* 2
    E(KEY_PLAYPAUSE, FALSE, FALSE, FALSE),  \* 3
    E(KEY_NEXTSONG, FALSE, FALSE, FALSE),  \* 4
    E(KEY_PREVIOUSSONG, FALSE, FALSE, FALSE),  \* 5
    E(KEY_RECORD, FALSE, FALSE, FALSE),  \* 6
    E(KEY_REWIND, FALSE, FALSE, FALSE),  \* 7
    E(KEY_FORWARD, FALSE, FALSE, FALSE),  \* 8
    E(KEY_PLAYCD, FALSE, FALSE, FALSE),  \* 9
    E(KEY_PAUSECD, FALSE, FALSE, FALSE),  \* 10
    E(KEY_STOPCD, FALSE, FALSE, FALSE),  \* 11
    E(KEY_EJECTCD, FALSE, FALSE, FALSE),  \* 12
    E(KEY_CLOSECD, FALSE, FALSE, FALSE),  \* 13
    E(KEY_EJECTCLOSECD, FALSE, FALSE, FALSE),  \* 14
    E(KEY_RESERVED, FALSE, FALSE, FALSE),  \* 15
    E(KEY_RESERVED, FALSE, FALSE, FALSE),  \* 16
    E(KEY_RESERVED, FALSE, FALSE, FALSE),  \* 17
    E(KEY_RESERVED, FALSE, FALSE, FALSE),  \* 18
    E(KEY_RESERVED, FALSE, FALSE, FALSE),  \* 19
    E(KEY_RESERVED, FALSE, FALSE, FALSE),  \* 20
    E(KEY_RESERVED, FALSE, FALSE, FALSE),  \* 21
    E(KEY_RESERVED, FALSE, FALSE, FALSE),  \* 22
    E(KEY_RESERVED, FALSE, FALSE, FALSE),  \* 23
    E(KEY_RESERVED, FALSE, FALSE, FALSE),  \* 24
    E(KEY_RESERVED, FALSE, FALSE, FALSE),  \* 25
    E(KEY_RESERVED, FALSE, FALSE, FALSE),  \* 26
    E(KEY_RESERVED, FALSE, FALSE, FALSE),  \* 27
    E(KEY_RESERVED, FALSE, FALSE, FALSE),  \* 28
    E(KEY_RESERVED, FALSE, FALSE, FALSE),  \* 29
    E(KEY_RESERVED, FALSE, FALSE, FALSE),  \* 30
    E(KEY_RESERVED, FALSE, FALSE, FALSE),  \* 31
    E(KEY_RESERVED, FALSE, FALSE, FALSE),  \* 32
    E(KEY_RESERVED, FALSE, FALSE, FALSE),  \* 33
    E(KEY_RESERVED, FALSE, FALSE, FALSE),  \* 34
    E(KEY_RESERVED, FALSE, FALSE, FALSE),  \* 35
    E(KEY_RESERVED, FALSE, FALSE, FALSE),  \* 36
    E(KEY_RESERVED, FALSE, FALSE, FALSE),  \* 37
    E(KEY_RESERVED, FALSE, FALSE, FALSE),  \* 38
    E(KEY_RESERVED, FALSE, FALSE, FALSE),  \* 39
    E(KEY_RESERVED, FALSE, FALSE, FALSE),  \* 40
    E(KEY_RESERVED, FALSE, FALSE, FALSE),  \* 41
    E(KEY_RESERVED, FALSE, FALSE, FALSE),  \* 42
    E(KEY_RESERVED, FALSE, FALSE, FALSE),  \* 43
    E(KEY_RESERVED, FALSE, FALSE, FALSE),  \* 44
    E(KEY_RESERVED, FALSE, FALSE, FALSE),  \* 45
    E(KEY_RESERVED, FALSE, FALSE, FALSE),  \* 46
    E(KEY_RESERVED, FALSE, FALSE, FALSE),  \* 47
    E(KEY_RESERVED, FALSE, FALSE, FALSE),  \* 48
    E(KEY_RESERVED, FALSE, FALSE, FALSE),  \* 49
    E(KEY_RESERVED, FALSE, FALSE, FALSE),  \* 50
    E(KEY_RESERVED, FALSE, FALSE, FALSE),  \* 51
    E(KEY_RESERVED, FALSE, FALSE, FALSE),  \* 52
    E(KEY_RESERVED, FALSE, FALSE, FALSE),  \* 53
    E(KEY_RESERVED, FALSE, FALSE, FALSE),  \* 54
    E(KEY_RESERVED, FALSE, FALSE, FALSE),  \* 55
    E(KEY_RESERVED, FALSE, FALSE, FALSE),  \* 56
    E(KEY_RESERVED, FALSE, FALSE, FALSE),  \* 57
    E(KEY_RESERVED, FALSE, FALSE, FALSE),  \* 58
    E(KEY_RESERVED, FALSE, FALSE, FALSE),  \* 59
    E(KEY_RESERVED, FALSE, FALSE, FALSE),  \* 60
    E(KEY_RESERVED, FALSE, FALSE, FALSE),  \* 61
    E(KEY_RESERVED, FALSE, FALSE, FALSE),  \* 62
    E(KEY_RESERVED, FALSE, FALSE, FALSE),  \* 63
    E(KEY_RESERVED, FALSE, FALSE, FALSE),  \* 64
    E(KEY_RESERVED, FALSE, FALSE, FALSE),  \* 65
    E(KEY_RESERVED, FALSE, FALSE, FALSE),  \* 66
    E(KEY_RESERVED, FALSE, FALSE, FALSE),  \* 67
    E(KEY_RESERVED, FALSE, FALSE, FALSE),  \* 68
    E(KEY_RESERVED, FALSE, FALSE, FALSE),  \* 69
    E(KEY_RESERVED, FALSE, FALSE, FALSE),  \* 70
    E(KEY_RESERVED, FALSE, FALSE, FALSE),  \* 71
    E(KEY_RESERVED, FALSE, FALSE, FALSE),  \* 72
    E(KEY_RESERVED, FALSE, FALSE, FALSE),  \* 73
    E(KEY_RESERVED, FALSE, FALSE, FALSE),  \* 74
    E(KEY_RESERVED, FALSE, FALSE, FALSE),  \* 75
    E(KEY_RESERVED, FALSE, FALSE, FALSE),  \* 76
    E(KEY_RESERVED, FALSE, FALSE, FALSE),  \* 77
    E(KEY_RESERVED, FALSE, FALSE, FALSE),  \* 78
    E(KEY_RESERVED, FALSE, FALSE, FALSE),  \* 79
    E(KEY_RESERVED, FALSE, FALSE, FALSE),  \* 80
    E(KEY_RESERVED, FALSE, FALSE, FALSE),  \* 81
    E(KEY_RESERVED, FALSE, FALSE, FALSE),  \* 82
    E(KEY_RESERVED, FALSE, FALSE, FALSE),  \* 83
    E(KEY_RESERVED, FALSE, FALSE, FALSE),  \* 84
    E(KEY_RESERVED, FALSE, FALSE, FALSE),  \* 85
    E(KEY_RESERVED, FALSE, FALSE, FALSE),  \* 86
    E(KEY_RESERVED, FALSE, FALSE, FALSE),  \* 87
    E(KEY_RESERVED, FALSE, FALSE, FALSE),  \* 88
    E(KEY_RESERVED, FALSE, FALSE, FALSE),  \* 89
    E(KEY_RESERVED, FALSE, FALSE, FALSE),  \* 90
    E(KEY_RESERVED, FALSE, FALSE, FALSE),  \* 91
    E(KEY_RESERVED, FALSE, FALSE, FALSE),  \* 92
    E(KEY_RESERVED, FALSE, FALSE, FALSE),  \* 93
    E(KEY_RESERVED, FALSE, FALSE, FALSE),  \* 94
    E(KEY_RESERVED, FALSE, FALSE, FALSE),  \* 95
    E(KEY_RESERVED, FALSE, FALSE, FALSE),  \* 96
    E(KEY_RESERVED, FALSE, FALSE, FALSE),  \* 97
    E(KEY_RESERVED, FALSE, FALSE, FALSE),  \* 98
    E(KEY_RESERVED, FALSE, FALSE, FALSE),  \* 99
    E(KEY_RESERVED, FALSE, FALSE, FALSE),  \* 100
    E(KEY_RESERVED, FALSE, FALSE, FALSE),  \* 101
    E(KEY_RESERVED, FALSE, FALSE, FALSE),  \* 102
    E(KEY_RESERVED, FALSE, FALSE, FALSE),  \* 103
    E(KEY_RESERVED, FALSE, FALSE, FALSE),  \* 104
    E(KEY_RESERVED, FALSE, FALSE, FALSE),  \* 105
    E(KEY_RESERVED, FALSE, FALSE, FALSE),  \* 106
    E(KEY_RESERVED, FALSE, FALSE, FALSE),  \* 107
    E(KEY_RESERVED, FALSE, FALSE, FALSE),  \* 108
    E(KEY_RESERVED, FALSE, FALSE, FALSE),  \* 109
    E(KEY_RESERVED, FALSE, FALSE, FALSE),  \* 110
    E(KEY_RESERVED, FALSE, FALSE, FALSE),  \* 111
    E(KEY_RESERVED, FALSE, FALSE, FALSE),  \* 112
    E(KEY_RESERVED, FALSE, FALSE, FALSE),  \* 113
    E(KEY_RESERVED, FALSE, FALSE, FALSE),  \* 114
    E(KEY_RESERVED, FALSE, FALSE, FALSE),  \* 115
    E(KEY_RESERVED, FALSE, FALSE, FALSE),  \* 116
    E(KEY_RESERVED, FALSE, FALSE, FALSE),  \* 117
    E(KEY_RESERVED, FALSE, FALSE, FALSE),  \* 118
    E(KEY_RESERVED, FALSE, FALSE, FALSE),  \* 119
    E(KEY_RESERVED, FALSE, FALSE, FALSE),  \* 120
    E(KEY_RESERVED, FALSE, FALSE, FALSE),  \* 121
    E(KEY_RESERVED, FALSE, FALSE, FALSE),  \* 122
    E(KEY_RESERVED, FALSE, FALSE, FALSE),  \* 123
    E(KEY_RESERVED, FALSE, FALSE, FALSE),  \* 124
    E(KEY_RESERVED, FALSE, FALSE, FALSE),  \* 125
    E(KEY_RESERVED, FALSE, FALSE, FALSE),  \* 126
    E(KEY_RESERVED, FALSE, FALSE, FALSE),  \* 127
    E(KEY_RESERVED, FALSE, FALSE, FALSE),  \* 128
    E(KEY_RESERVED, FALSE, FALSE, FALSE),  \* 129
    E(KEY_RESERVED, FALSE, FALSE, FALSE),  \* 130
    E(KEY_RESERVED, FALSE, FALSE, FALSE),  \* 131
    E(KEY_RESERVED, FALSE, FALSE, FALSE),  \* 132
    E(KEY_RESERVED, FALSE, FALSE, FALSE),  \* 133
    E(KEY_RESERVED, FALSE, FALSE, FALSE),  \* 134
    E(KEY_RESERVED, FALSE, FALSE, FALSE),  \* 135
    E(KEY_RESERVED, FALSE, FALSE, FALSE),  \* 136
    E(KEY_RESERVED, FALSE, FALSE, FALSE),  \* 137
    E(KEY_RESERVED, FALSE, FALSE, FALSE),  \* 138
    E(KEY_RESERVED, FALSE, FALSE, FALSE),  \* 139
    E(KEY_RESERVED, FALSE, FALSE, FALSE),  \* 140
    E(KEY_RESERVED, FALSE, FALSE, FALSE),  \* 141
    E(KEY_RESERVED, FALSE, FALSE, FALSE),  \* 142
    E(KEY_RESERVED, FALSE, FALSE, FALSE),  \* 143
    E(KEY_RESERVED, FALSE, FALSE, FALSE),  \* 144
    E(KEY_RESERVED, FALSE, FALSE, FALSE),  \* 145
    E(KEY_RESERVED, FALSE, FALSE, FALSE),  \* 146
    E(KEY_RESERVED, FALSE, FALSE, FALSE),  \* 147
    E(KEY_RESERVED, FALSE, FALSE, FALSE),  \* 148
    E(KEY_RESERVED, FALSE, FALSE, FALSE),  \* 149
    E(KEY_RESERVED, FALSE, FALSE, FALSE),  \* 150
    E(KEY_RESERVED, FALSE, FALSE, FALSE),  \* 151
    E(KEY_RESERVED, FALSE, FALSE, FALSE),  \* 152
    E(KEY_RESERVED, FALSE, FALSE, FALSE),  \* 153
    E(KEY_RESERVED, FALSE, FALSE, FALSE),  \* 154
    E(KEY_RESERVED, FALSE, FALSE, FALSE),  \* 155
    E(KEY_RESERVED, FALSE, FALSE, FALSE),  \* 156
    E(KEY_RESERVED, FALSE, FALSE, FALSE),  \* 157
    E(KEY_RESERVED, FALSE, FALSE, FALSE),  \* 158
    E(KEY_RESERVED, FALSE, FALSE, FALSE),  \* 159
    E(KEY_RESERVED, FALSE, FALSE, FALSE),  \* 160
    E(KEY_RESERVED, FALSE, FALSE, FALSE),  \* 161
    E(KEY_RESERVED, FALSE, FALSE, FALSE),  \* 162
    E(KEY_RESERVED, FALSE, FALSE, FALSE),  \* 163
    E(KEY_RESERVED, FALSE, FALSE, FALSE),  \* 164
    E(KEY_RESERVED, FALSE, FALSE, FALSE),  \* 165
    E(KEY_RESERVED, FALSE, FALSE, FALSE),  \* 166
    E(KEY_RESERVED, FALSE, FALSE, FALSE),  \* 167
    E(KEY_RESERVED, FALSE, FALSE, FALSE),  \* 168
    E(KEY_RESERVED, FALSE, FALSE, FALSE),  \* 169
    E(KEY_RESERVED, FALSE, FALSE, FALSE),  \* 170
    E(KEY_RESERVED, FALSE, FALSE, FALSE),  \* 171
    E(KEY_RESERVED, FALSE, FALSE, FALSE),  \* 172
    E(KEY_RESERVED, FALSE, FALSE, FALSE),  \* 173
    E(KEY_RESERVED, FALSE, FALSE, FALSE),  \* 174
    E(KEY_RESERVED, FALSE, FALSE, FALSE),  \* 175
    E(KEY_RESERVED, FALSE, FALSE, FALSE),  \* 176
    E(KEY_RESERVED, FALSE, FALSE, FALSE),  \* 177
    E(KEY_RESERVED, FALSE, FALSE, FALSE),  \* 178
    E(KEY_RESERVED, FALSE, FALSE, FALSE),  \* 179
    E(KEY_RESERVED, FALSE, FALSE, FALSE),  \* 180
    E(KEY_RESERVED, FALSE, FALSE, FALSE),  \* 181
    E(KEY_RESERVED, FALSE, FALSE, FALSE),  \* 182
    E(KEY_RESERVED, FALSE, FALSE, FALSE),  \* 183
    E(KEY_RESERVED, FALSE, FALSE, FALSE),  \* 184
    E(KEY_RESERVED, FALSE, FALSE, FALSE),  \* 185
    E(KEY_RESERVED, FALSE, FALSE, FALSE),  \* 186
    E(KEY_RESERVED, FALSE, FALSE, FALSE),  \* 187
    E(KEY_RESERVED, FALSE, FALSE, FALSE),  \* 188
    E(KEY_RESERVED, FALSE, FALSE, FALSE),  \* 189
    E(KEY_RESERVED, FALSE, FALSE, FALSE),  \* 190
    E(KEY_RESERVED, FALSE, FALSE, FALSE),  \* 191
    E(KEY_RESERVED, FALSE, FALSE, FALSE),  \* 192
    E(KEY_RESERVED, FALSE, FALSE, FALSE),  \* 193
    E(KEY_RESERVED, FALSE, FALSE, FALSE),  \* 194
    E(KEY_RESERVED, FALSE, FALSE, FALSE),  \* 195
    E(KEY_RESERVED, FALSE, FALSE, FALSE),  \* 196
    E(KEY_RESERVED, FALSE, FALSE, FALSE),  \* 197
    E(KEY_RESERVED, FALSE, FALSE, FALSE),  \* 198
    E(KEY_RESERVED, FALSE, FALSE, FALSE),  \* 199
    E(KEY_RESERVED, FALSE, FALSE, FALSE),  \* 200
    E(KEY_RESERVED, FALSE, FALSE, FALSE),  \* 201
    E(KEY_RESERVED, FALSE, FALSE, FALSE),  \* 202
    E(KEY_RESERVED, FALSE, FALSE, FALSE),  \* 203
    E(KEY_RESERVED, FALSE, FALSE, FALSE),  \* 204
    E(KEY_RESERVED, FALSE, FALSE, FALSE),  \* 205
    E(KEY_RESERVED, FALSE, FALSE, FALSE),  \* 206
    E(KEY_RESERVED, FALSE, FALSE, FALSE),  \* 207
    E(KEY_RESERVED, FALSE, FALSE, FALSE),  \* 208
    E(KEY_RESERVED, FALSE, FALSE, FALSE),  \* 209
    E(KEY_RESERVED, FALSE, FALSE, FALSE),  \* 210
    E(KEY_RESERVED, FALSE, FALSE, FALSE),  \* 211
    E(KEY_RESERVED, FALSE, FALSE, FALSE),  \* 212
    E(KEY_RESERVED, FALSE, FALSE, FALSE),  \* 213
    E(KEY_RESERVED, FALSE, FALSE, FALSE),  \* 214
    E(KEY_RESERVED, FALSE, FALSE, FALSE),  \* 215
    E(KEY_RESERVED, FALSE, FALSE, FALSE),  \* 216
    E(KEY_RESERVED, FALSE, FALSE, FALSE),  \* 217
    E(KEY_RESERVED, FALSE, FALSE, FALSE),  \* 218
    E(KEY_RESERVED, FALSE, FALSE, FALSE),  \* 219
    E(KEY_RESERVED, FALSE, FALSE, FALSE),  \* 220
    E(KEY_RESERVED, FALSE, FALSE, FALSE),  \* 221
    E(KEY_RESERVED, FALSE, FALSE, FALSE),  \* 222
    E(KEY_RESERVED, FALSE, FALSE, FALSE),  \* 223
    E(KEY_RESERVED, FALSE, FALSE, FALSE),  \* 224
    E(KEY_RESERVED, FALSE, FALSE, FALSE),  \* 225
    E(KEY_RESERVED, FALSE, FALSE, FALSE),  \* 226
    E(KEY_RESERVED, FALSE, FALSE, FALSE),  \* 227
    E(KEY_RESERVED, FALSE, FALSE, FALSE),  \* 228
    E(KEY_RESERVED, FALSE, FALSE, FALSE),  \* 229
    E(KEY_RESERVED, FALSE, FALSE, FALSE),  \* 230
    E(KEY_RESERVED, FALSE, FALSE, FALSE),  \* 231
    E(KEY_RESERVED, FALSE, FALSE, FALSE),  \* 232
    E(KEY_RESERVED, FALSE, FALSE, FALSE),  \* 233
    E(KEY_RESERVED, FALSE, FALSE, FALSE),  \* 234
    E(KEY_RESERVED, FALSE, FALSE, FALSE),  \* 235
    E(KEY_RESERVED, FALSE, FALSE, FALSE),  \* 236
    E(KEY_RESERVED, FALSE, FALSE, FALSE),  \* 237
    E(KEY_RESERVED, FALSE, FALSE, FALSE),  \* 238
    E(KEY_RESERVED, FALSE, FALSE, FALSE),  \* 239
    E(KEY_RESERVED, FALSE, FALSE, FALSE),  \* 240
    E(KEY_RESERVED, FALSE, FALSE, FALSE),  \* 241
    E(KEY_RESERVED, FALSE, FALSE, FALSE),  \* 242
    E(KEY_RESERVED, FALSE, FALSE, FALSE),  \* 243
    E(KEY_RESERVED, FALSE, FALSE, FALSE),  \* 244
    E(KEY_RESERVED, FALSE, FALSE, FALSE),  \* 245
    E(KEY_RESERVED, FALSE, FALSE, FALSE),  \* 246
    E(KEY_RESERVED, FALSE, FALSE, FALSE),  \* 247
    E(KEY_RESERVED, FALSE, FALSE, FALSE),  \* 248
    E(KEY_RESERVED, FALSE, FALSE, FALSE),  \* 249
    E(KEY_RESERVED, FALSE, FALSE, FALSE),  \* 250
    E(KEY_RESERVED, FALSE, FALSE, FALSE),  \* 251
    E(KEY_RESERVED, FALSE, FALSE, FALSE),  \* 252
    E(KEY_RESERVED, FALSE, FALSE, FALSE),  \* 253
    E(KEY_RESERVED, FALSE, FALSE, FALSE),  \* 254
    E(KEY_RESERVED, FALSE, FALSE, FALSE)  \* 255
  >>,
  <<
    E(KEY_RESERVED, FALSE, FALSE, FALSE),  \* 0
    E(KEY_RESERVED, FALSE, FALSE, FALSE),  \* 1
    E(KEY_RESERVED, FALSE, FALSE, FALSE),  \* 2
    E(KEY_RESERVED, FALSE, FALSE, FALSE),  \* 3
    E(KEY_RESERVED, FALSE, FALSE, FALSE),  \* 4
    E(KEY_RESERVED, FALSE, FALSE, FALSE),  \* 5
    E(KEY_RESERVED, FALSE, FALSE, FALSE),  \* 6
    E(KEY_RESERVED, FALSE, FALSE, FALSE),  \* 7
    E(KEY_RESERVED, FALSE, FALSE, FALSE),  \* 8
    E(KEY_RESERVED, FALSE, FALSE, FALSE),  \* 9
    E(KEY_RESERVED, FALSE, FALSE, FALSE),  \* 10
    E(KEY_RESERVED, FALSE, FALSE, FALSE),  \* 11
    E(KEY_RESERVED, FALSE, FALSE, FALSE),  \* 12
    E(KEY_RESERVED, FALSE, FALSE, FALSE),  \* 13
    E(KEY_RESERVED, FALSE, FALSE, FALSE),  \* 14
    E(KEY_RESERVED, FALSE, FALSE, FALSE),  \* 15
    E(KEY_RESERVED, FALSE, FALSE, FALSE),  \* 16
    E(KEY_RESERVED, FALSE, FALSE, FALSE),  \* 17
    E(KEY_RESERVED, FALSE, FALSE, FALSE),  \* 18
    E(KEY_RESERVED, FALSE, FALSE, FALSE),  \* 19
    E(KEY_RESERVED, FALSE, FALSE, FALSE),  \* 20
    E(KEY_RESERVED, FALSE, FALSE, FALSE),  \* 21
    E(KEY_RESERVED, FALSE, FALSE, FALSE),  \* 22
    E(KEY_RESERVED, FALSE, FALSE, FALSE),  \* 23
    E(KEY_RESERVED, FALSE, FALSE, FALSE),  \* 24
    E(KEY_RESERVED, FALSE, FALSE, FALSE),  \* 25
    E(KEY_RESERVED, FALSE, FALSE, FALSE),  \* 26
    E(KEY_RESERVED, FALSE, FALSE, FALSE),  \* 27
    E(KEY_RESERVED, FALSE, FALSE, FALSE),  \* 28
    E(KEY_RESERVED, FALSE, FALSE, FALSE),  \* 29
    E(KEY_RESERVED, FALSE, FALSE, FALSE),  \* 30
    E(KEY_RESERVED, FALSE, FALSE, FALSE),  \* 31
    E(KEY_RESERVED, FALSE, FALSE, FALSE),  \* 32
    E(KEY_RESERVED, FALSE, FALSE, FALSE),  \* 33
    E(KEY_RESERVED, FALSE, FALSE, FALSE),  \* 34
    E(KEY_RESERVED, FALSE, FALSE, FALSE),  \* 35
    E(KEY_RESERVED, FALSE, FALSE, FALSE),  \* 36
    E(KEY_RESERVED, FALSE, FALSE, FALSE),  \* 37
    E(KEY_RESERVED, FALSE, FALSE, FALSE),  \* 38
    E(KEY_RESERVED, FALSE, FALSE, FALSE),  \* 39
    E(KEY_RESERVED, FALSE, FALSE, FALSE),  \* 40
    E(KEY_RESERVED, FALSE, FALSE, FALSE),  \* 41
    E(KEY_RESERVED, FALSE, FALSE, FALSE),  \* 42
    E(KEY_RESERVED, FALSE, FALSE, FALSE),  \* 43
    E(KEY_RESERVED, FALSE, FALSE, FALSE),  \* 44
    E(KEY_RESERVED, FALSE, FALSE, FALSE),  \* 45
    E(KEY_RESERVED, FALSE, FALSE, FALSE),  \* 46
    E(KEY_RESERVED, FALSE, FALSE, FALSE),  \* 47
    E(KEY_RESERVED, FALSE, FALSE, FALSE),  \* 48
    E(KEY_RESERVED, FALSE, FALSE, FALSE),  \* 49
    E(KEY_RESERVED, FALSE, FALSE, FALSE),  \* 50
    E(KEY_RESERVED, FALSE, FALSE, FALSE),  \* 51
    E(KEY_RESERVED, FALSE, FALSE, FALSE),  \* 52
    E(KEY_RESERVED, FALSE, FALSE, FALSE),  \* 53
    E(KEY_RESERVED, FALSE, FALSE, FALSE),  \* 54
    E(KEY_RESERVED, FALSE, FALSE, FALSE),  \* 55
    E(KEY_RESERVED, FALSE, FALSE, FALSE),  \* 56
    E(KEY_RESERVED, FALSE, FALSE, FALSE),  \* 57
    E(KEY_RESERVED, FALSE, FALSE, FALSE),  \* 58
    E(KEY_RESERVED, FALSE, FALSE, FALSE),  \* 59
    E(KEY_RESERVED, FALSE, FALSE, FALSE),  \* 60
    E(KEY_RESERVED, FALSE, FALSE, FALSE),  \* 61
    E(KEY_RESERVED, FALSE, FALSE, FALSE),  \* 62
    E(KEY_RESERVED, FALSE, FALSE, FALSE),  \* 63
    E(KEY_RESERVED, FALSE, FALSE, FALSE),  \* 64
    E(KEY_RESERVED, FALSE, FALSE, FALSE),  \* 65
    E(KEY_RESERVED, FALSE, FALSE, FALSE),  \* 66
    E(KEY_RESERVED, FALSE, FALSE, FALSE),  \* 67
    E(KEY_RESERVED, FALSE, FALSE, FALSE),  \* 68
    E(KEY_RESERVED, FALSE, FALSE, FALSE),  \* 69
    E(KEY_RESERVED, FALSE, FALSE, FALSE),  \* 70
    E(KEY_RESERVED, FALSE, FALSE, FALSE),  \* 71
    E(KEY_RESERVED, FALSE, FALSE, FALSE),  \* 72
    E(KEY_RESERVED, FALSE, FALSE, FALSE),  \* 73
    E(KEY_RESERVED, FALSE, FALSE, FALSE),  \* 74
    E(KEY_RESERVED, FALSE, FALSE, FALSE),  \* 75
    E(KEY_RESERVED, FALSE, FALSE, FALSE),  \* 76
    E(KEY_RESERVED, FALSE, FALSE, FALSE),  \* 77
    E(KEY_RESERVED, FALSE, FALSE, FALSE),  \* 78
    E(KEY_RESERVED, FALSE, FALSE, FALSE),  \* 79
    E(KEY_RESERVED, FALSE, FALSE, FALSE),  \* 80
    E(KEY_RESERVED, FALSE, FALSE, FALSE),  \* 81
    E(KEY_RESERVED, FALSE, FALSE, FALSE),  \* 82
    E(KEY_RESERVED, FALSE, FALSE, FALSE),  \* 83
    E(KEY_RESERVED, FALSE, FALSE, FALSE),  \* 84
    E(KEY_RESERVED, FALSE, FALSE, FALSE),  \* 85
    E(KEY_RESERVED, FALSE, FALSE, FALSE),  \* 86
    E(KEY_RESERVED, FALSE, FALSE, FALSE),  \* 87
    E(KEY_RESERVED, FALSE, FALSE, FALSE),  \* 88
    E(KEY_RESERVED, FALSE, FALSE, FALSE),  \* 89
    E(KEY_RESERVED, FALSE, FALSE, FALSE),  \* 90
    E(KEY_RESERVED, FALSE, FALSE, FALSE),  \* 91
    E(KEY_RESERVED, FALSE, FALSE, FALSE),  \* 92
    E(KEY_RESERVED, FALSE, FALSE, FALSE),  \* 93
    E(KEY_RESERVED, FALSE, FALSE, FALSE),  \* 94
    E(KEY_RESERVED, FALSE, FALSE, FALSE),  \* 95
    E(KEY_RESERVED, FALSE, FALSE, FALSE),  \* 96
    E(KEY_RESERVED, FALSE, FALSE, FALSE),  \* 97
    E(KEY_RESERVED, FALSE, FALSE, FALSE),  \* 98
    E(KEY_RESERVED, FALSE, FALSE, FALSE),  \* 99
    E(KEY_RESERVED, FALSE, FALSE, FALSE),  \* 100
    E(KEY_RESERVED, FALSE, FALSE, FALSE),  \* 101
    E(KEY_RESERVED, FALSE, FALSE, FALSE),  \* 102
    E(KEY_RESERVED, FALSE, FALSE, FALSE),  \* 103
    E(KEY_RESERVED, FALSE, FALSE, FALSE),  \* 104
    E(KEY_RESERVED, FALSE, FALSE, FALSE),  \* 105
    E(KEY_RESERVED, FALSE, FALSE, FALSE),  \* 106
    E(KEY_RESERVED, FALSE, FALSE, FALSE),  \* 107
    E(KEY_RESERVED, FALSE, FALSE, FALSE),  \* 108
    E(KEY_RESERVED, FALSE, FALSE, FALSE),  \* 109
    E(KEY_RESERVED, FALSE, FALSE, FALSE),  \* 110
    E(KEY_RESERVED, FALSE, FALSE, FALSE),  \* 111
    E(KEY_RESERVED, FALSE, FALSE, FALSE),  \* 112
    E(KEY_RESERVED, FALSE, FALSE, FALSE),  \* 113
    E(KEY_RESERVED, FALSE, FALSE, FALSE),  \* 114
    E(KEY_RESERVED, FALSE, FALSE, FALSE),  \* 115
    E(KEY_RESERVED, FALSE, FALSE, FALSE),  \* 116
    E(KEY_RESERVED, FALSE, FALSE, FALSE),  \* 117
    E(KEY_RESERVED, FALSE, FALSE, FALSE),  \* 118
    E(KEY_RESERVED, FALSE, FALSE, FALSE),  \* 119
    E(KEY_RESERVED, FALSE, FALSE, FALSE),  \* 120
    E(KEY_RESERVED, FALSE, FALSE, FALSE),  \* 121
    E(KEY_RESERVED, FALSE, FALSE, FALSE),  \* 122
    E(KEY_RESERVED, FALSE, FALSE, FALSE),  \* 123
    E(KEY_RESERVED, FALSE, FALSE, FALSE),  \* 124
    E(KEY_RESERVED, FALSE, FALSE, FALSE),  \* 125
    E(KEY_RESERVED, FALSE, FALSE, FALSE),  \* 126
    E(KEY_RESERVED, FALSE, FALSE, FALSE),  \* 127
    E(KEY_RESERVED, FALSE, FALSE, FALSE),  \* 128
    E(KEY_RESERVED, FALSE, FALSE, FALSE),  \* 129
    E(KEY_RESERVED, FALSE, FALSE, FALSE),  \* 130
    E(KEY_RESERVED, FALSE, FALSE, FALSE),  \* 131
    E(KEY_RESERVED, FALSE, FALSE, FALSE),  \* 132
    E(KEY_RESERVED, FALSE, FALSE, FALSE),  \* 133
    E(KEY_RESERVED, FALSE, FALSE, FALSE),  \* 134
    E(KEY_RESERVED, FALSE, FALSE, FALSE),  \* 135
    E(KEY_RESERVED, FALSE, FALSE, FALSE),  \* 136
    E(KEY_RESERVED, FALSE, FALSE, FALSE),  \* 137
    E(KEY_RESERVED, FALSE, FALSE, FALSE),  \* 138
    E(KEY_RESERVED, FALSE, FALSE, FALSE),  \* 139
    E(KEY_RESERVED, FALSE, FALSE, FALSE),  \* 140
    E(KEY_RESERVED, FALSE, FALSE, FALSE),  \* 141
    E(KEY_RESERVED, FALSE, FALSE, FALSE),  \* 142
    E(KEY_RESERVED, FALSE, FALSE, FALSE),  \* 143
    E(KEY_RESERVED, FALSE, FALSE, FALSE),  \* 144
    E(KEY_RESERVED, FALSE, FALSE, FALSE),  \* 145
    E(KEY_RESERVED, FALSE, FALSE, FALSE),  \* 146
    E(KEY_RESERVED, FALSE, FALSE, FALSE),  \* 147
    E(KEY_RESERVED, FALSE, FALSE, FALSE),  \* 148
    E(KEY_RESERVED, FALSE, FALSE, FALSE),  \* 149
    E(KEY_RESERVED, FALSE, FALSE, FALSE),  \* 150
    E(KEY_RESERVED, FALSE, FALSE, FALSE),  \* 151
    E(KEY_RESERVED, FALSE, FALSE, FALSE),  \* 152
    E(KEY_RESERVED, FALSE, FALSE, FALSE),  \* 153
    E(KEY_RESERVED, FALSE, FALSE, FALSE),  \* 154
    E(KEY_RESERVED, FALSE, FALSE, FALSE),  \* 155
    E(KEY_RESERVED, FALSE, FALSE, FALSE),  \* 156
    E(KEY_RESERVED, FALSE, FALSE, FALSE),  \* 157
    E(KEY_RESERVED, FALSE, FALSE, FALSE),  \* 158
    E(KEY_RESERVED, FALSE, FALSE, FALSE),  \* 159
    E(KEY_RESERVED, FALSE, FALSE, FALSE),  \* 160
    E(KEY_RESERVED, FALSE, FALSE, FALSE),  \* 161
    E(KEY_RESERVED, FALSE, FALSE, FALSE),  \* 162
    E(KEY_RESERVED, FALSE, FALSE, FALSE),  \* 163
    E(KEY_RESERVED, FALSE, FALSE, FALSE),  \* 164
    E(KEY_RESERVED, FALSE, FALSE, FALSE),  \* 165
    E(KEY_RESERVED, FALSE, FALSE, FALSE),  \* 166
    E(KEY_RESERVED, FALSE, FALSE, FALSE),  \* 167
    E(KEY_RESERVED, FALSE, FALSE, FALSE),  \* 168
    E(KEY_RESERVED, FALSE, FALSE, FALSE),  \* 169
    E(KEY_RESERVED, FALSE, FALSE, FALSE),  \* 170
    E(KEY_RESERVED, FALSE, FALSE, FALSE),  \* 171
    E(KEY_RESERVED, FALSE, FALSE, FALSE),  \* 172
    E(KEY_RESERVED, FALSE, FALSE, FALSE),  \* 173
    E(KEY_RESERVED, FALSE, FALSE, FALSE),  \* 174
    E(KEY_RESERVED, FALSE, FALSE, FALSE),  \* 175
    E(KEY_RESERVED, FALSE, FALSE, FALSE),  \* 176
    E(KEY_RESERVED, FALSE, FALSE, FALSE),  \* 177
    E(KEY_RESERVED, FALSE, FALSE, FALSE),  \* 178
    E(KEY_RESERVED, FALSE, FALSE, FALSE),  \* 179
    E(KEY_RESERVED, FALSE, FALSE, FALSE),  \* 180
    E(KEY_RESERVED, FALSE, FALSE, FALSE),  \* 181
    E(KEY_RESERVED, FALSE, FALSE, FALSE),  \* 182
    E(KEY_RESERVED, FALSE, FALSE, FALSE),  \* 183
    E(KEY_RESERVED, FALSE, FALSE, FALSE),  \* 184
    E(KEY_RESERVED, FALSE, FALSE, FALSE),  \* 185
    E(KEY_RESERVED, FALSE, FALSE, FALSE),  \* 186
    E(KEY_RESERVED, FALSE, FALSE, FALSE),  \* 187
    E(KEY_RESERVED, FALSE, FALSE, FALSE),  \* 188
    E(KEY_RESERVED, FALSE, FALSE, FALSE),  \* 189
    E(KEY_RESERVED, FALSE, FALSE, FALSE),  \* 190
    E(KEY_RESERVED, FALSE, FALSE, FALSE),  \* 191
    E(KEY_RESERVED, FALSE, FALSE, FALSE),  \* 192
    E(KEY_RESERVED, FALSE, FALSE, FALSE),  \* 193
    E(KEY_RESERVED, FALSE, FALSE, FALSE),  \* 194
    E(KEY_RESERVED, FALSE, FALSE, FALSE),  \* 195
    E(KEY_RESERVED, FALSE, FALSE, FALSE),  \* 196
    E(KEY_RESERVED, FALSE, FALSE, FALSE),  \* 197
    E(KEY_RESERVED, FALSE, FALSE, FALSE),  \* 198
    E(KEY_RESERVED, FALSE, FALSE, FALSE),  \* 199
    E(KEY_RESERVED, FALSE, FALSE, FALSE),  \* 200
    E(KEY_RESERVED, FALSE, FALSE, FALSE),  \* 201
    E(KEY_RESERVED, FALSE, FALSE, FALSE),  \* 202
    E(KEY_RESERVED, FALSE, FALSE, FALSE),  \* 203
    E(KEY_RESERVED, FALSE, FALSE, FALSE),  \* 204
    E(KEY_RESERVED, FALSE, FALSE, FALSE),  \* 205
    E(KEY_RESERVED, FALSE, FALSE, FALSE),  \* 206
    E(KEY_RESERVED, FALSE, FALSE, FALSE),  \* 207
    E(KEY_RESERVED, FALSE, FALSE, FALSE),  \* 208
    E(KEY_RESERVED, FALSE, FALSE, FALSE),  \* 209
    E(KEY_RESERVED, FALSE, FALSE, FALSE),  \* 210
    E(KEY_RESERVED, FALSE, FALSE, FALSE),  \* 211
    E(KEY_RESERVED, FALSE, FALSE, FALSE),  \* 212
    E(KEY_RESERVED, FALSE, FALSE, FALSE),  \* 213
    E(KEY_RESERVED, FALSE, FALSE, FALSE),  \* 214
    E(KEY_RESERVED, FALSE, FALSE, FALSE),  \* 215
    E(KEY_RESERVED, FALSE, FALSE, FALSE),  \* 216
    E(KEY_RESERVED, FALSE, FALSE, FALSE),  \* 217
    E(KEY_RESERVED, FALSE, FALSE, FALSE),  \* 218
    E(KEY_RESERVED, FALSE, FALSE, FALSE),  \* 219
    E(KEY_RESERVED, FALSE, FALSE, FALSE),  \* 220
    E(KEY_RESERVED, FALSE, FALSE, FALSE),  \* 221
    E(KEY_RESERVED, FALSE, FALSE, FALSE),  \* 222
    E(KEY_RESERVED, FALSE, FALSE, FALSE),  \* 223
    E(KEY_RESERVED, FALSE, FALSE, FALSE),  \* 224
    E(KEY_RESERVED, FALSE, FALSE, FALSE),  \* 225
    E(KEY_RESERVED, FALSE, FALSE, FALSE),  \* 226
    E(KEY_RESERVED, FALSE, FALSE, FALSE),  \* 227
    E(KEY_RESERVED, FALSE, FALSE, FALSE),  \* 228
    E(KEY_RESERVED, FALSE, FALSE, FALSE),  \* 229
    E(KEY_RESERVED, FALSE, FALSE, FALSE),  \* 230
    E(KEY_RESERVED, FALSE, FALSE, FALSE),  \* 231
    E(KEY_RESERVED, FALSE, FALSE, FALSE),  \* 232
    E(KEY_RESERVED, FALSE, FALSE, FALSE),  \* 233
    E(KEY_RESERVED, FALSE, FALSE, FALSE),  \* 234
    E(KEY_RESERVED, FALSE, FALSE, FALSE),  \* 235
    E(KEY_RESERVED, FALSE, FALSE, FALSE),  \* 236
    E(KEY_RESERVED, FALSE, FALSE, FALSE),  \* 237
    E(KEY_RESERVED, FALSE, FALSE, FALSE),  \* 238
    E(KEY_RESERVED, FALSE, FALSE, FALSE),  \* 239
    E(KEY_RESERVED, FALSE, FALSE, FALSE),  \* 240
    E(KEY_RESERVED, FALSE, FALSE, FALSE),  \* 241
    E(KEY_RESERVED, FALSE, FALSE, FALSE),  \* 242
    E(KEY_RESERVED, FALSE, FALSE, FALSE),  \* 243
    E(KEY_RESERVED, FALSE, FALSE, FALSE),  \* 244
    E(KEY_RESERVED, FALSE, FALSE, FALSE),  \* 245
    E(KEY_RESERVED, FALSE, FALSE, FALSE),  \* 246
    E(KEY_RESERVED, FALSE, FALSE, FALSE),  \* 247
    E(KEY_RESERVED, FALSE, FALSE, FALSE),  \* 248
    E(KEY_RESERVED, FALSE, FALSE, FALSE),  \* 249
    E(KEY_RESERVED, FALSE, FALSE, FALSE),  \* 250
    E(KEY_RESERVED, FALSE, FALSE, FALSE),  \* 251
    E(KEY_RESERVED, FALSE, FALSE, FALSE),  \* 252
    E(KEY_RESERVED, FALSE, FALSE, FALSE),  \* 253
    E(KEY_RESERVED, FALSE, FALSE, FALSE),  \* 254
    E(KEY_RESERVED, FALSE, FALSE, FALSE)  \* 255
  >>
  >>

\* speeds[] : the baud rates -b accepts, with their termios speed
speeds ==
  << [baudrate |-> 50,      speed |-> "B50"],
     [baudrate |-> 110,     speed |-> "B110"],
     [baudrate |-> 300,     speed |-> "B300"],
     [baudrate |-> 1200,    speed |-> "B1200"],
     [baudrate |-> 2400,    speed |-> "B2400"],
     [baudrate |-> 4800,    speed |-> "B4800"],
     [baudrate |-> 9600,    speed |-> "B9600"],
     [baudrate |-> 19200,   speed |-> "B19200"],
     [baudrate |-> 38400,   speed |-> "B38400"],
     [baudrate |-> 57600,   speed |-> "B57600"],
     [baudrate |-> 115200,  speed |-> "B115200"],
     [baudrate |-> 230400,  speed |-> "B230400"],
     [baudrate |-> 460800,  speed |-> "B460800"],
     [baudrate |-> 921600,  speed |-> "B921600"],
     [baudrate |-> 1152000, speed |-> "B1152000"] >>

\* appConfig as initialised at its definition
DefaultConfig ==
  [ speed    |-> "B300",
    parity   |-> "PARITY_NONE",
    databits |-> "DATABITS_8",
    stopbits |-> "STOPBITS_1",
    keymap   |-> KEYMAP_KAYPRO,
    tty      |-> "/dev/ttyAMA4",
    fork     |-> FALSE,
    verbose  |-> FALSE ]

\* --------------------------------------------------------- integer widths
\* value of a `char' object initialised from the int constant k; whether
\* plain char is signed is the build's choice
CharOf(k, signed) ==
  LET b == k % 256 IN IF signed /\ b > 127 THEN b - 256 ELSE b

\* value stored in a __u16 field (input_event.type, input_event.code)
U16(n) == n % 65536

\* a & b in place of a && b
RECURSIVE LogicalAnd_Bitwise(_, _)
LogicalAnd_Bitwise(a, b) ==
  IF a = 0 \/ b = 0 THEN 0
  ELSE (a % 2) * (b % 2) + 2 * LogicalAnd_Bitwise(a \div 2, b \div 2)

\* C's a && b on integers
LogicalAnd(a, b) == IF a # 0 /\ b # 0 THEN 1 ELSE 0

\* the shift left out: x in place of x >> 7
Shr7_NoShift(x) == x

\* C's x >> 7 on a non-negative int
Shr7(x) == x \div 128

\* -------------------------------------------------------- command line
\* argv[i] strings the model feeds to parseCommandLine
Switches == {"-b", "-p", "-d", "-s", "-k", "-f", "-v", "-h", "-x"}
Operands == {"9600", "7", "8", "2", "odd", "kaypro", "media_keys", "ascii",
             "custom", "/dev/ttyS0"}
Tokens == Switches \cup Operands

RECURSIVE SeqsUpTo(_, _)
SeqsUpTo(S, n) ==
  IF n = 0 THEN {<<>>}
  ELSE LET shorter == SeqsUpTo(S, n - 1)
       IN shorter \cup {Append(s, t) : s \in {x \in shorter : Len(x) = n - 1}, t \in S}

\* argv[1..argc-1]
ArgvSet == SeqsUpTo(Tokens, MaxArgs)

\* atoi() on the strings of Tokens
atoi(s) ==
  CASE s = "9600" -> 9600
    [] s = "7"    -> 7
    [] s = "8"    -> 8
    [] s = "2"    -> 2
    [] OTHER      -> 0

\* outcome of parseCommandLine: it returns, calls exitApp(.., code), or
\* dereferences argv[argc] (NULL) when a switch that takes a value is last
Parsed(cfg)       == [cfg |-> cfg, end |-> "return", code |-> 0]
ParseExit(cfg, c) == [cfg |-> cfg, end |-> "exitApp", code |-> c]
ParseNull(cfg)    == [cfg |-> cfg, end |-> "null", code |-> 0]

RECURSIVE parseArgs(_, _, _)
parseArgs(args, i, cfg) ==
  IF i > Len(args)
  THEN IF cfg.tty = "NULL" THEN ParseExit(cfg, -11) ELSE Parsed(cfg)
  ELSE
    LET a    == args[i]
        last == i + 1 > Len(args)          \* argv[i+1] is argv[argc] = NULL
        v    == args[i + 1]
    IN
    IF a \in Switches
    THEN
      CASE a = "-b" ->
             IF last THEN ParseNull(cfg)
             ELSE LET baudrate == atoi(v)
                      hits == {j \in 1..Len(speeds) : speeds[j].baudrate = baudrate}
                      cfg2 == IF hits = {} THEN cfg
                              ELSE [cfg EXCEPT !.speed =
                                      speeds[CHOOSE j \in hits : \A h \in hits : j <= h].speed]
                  IN IF i + 1 = Len(speeds) THEN ParseExit(cfg2, -4)
                     ELSE parseArgs(args, i + 2, cfg2)
        [] a = "-p" ->
             IF last THEN ParseNull(cfg)
             ELSE IF v = "odd"  THEN parseArgs(args, i + 2, [cfg EXCEPT !.parity = "PARITY_ODD"])
             ELSE IF v = "even" THEN parseArgs(args, i + 2, [cfg EXCEPT !.parity = "PARITY_EVEN"])
             ELSE IF v = "none" THEN parseArgs(args, i + 2, [cfg EXCEPT !.parity = "PARITY_NONE"])
             ELSE ParseExit(cfg, -5)
        [] a = "-d" ->
             IF last THEN ParseNull(cfg)
             ELSE LET databits == atoi(v) IN
                  IF databits = 5 THEN parseArgs(args, i + 2, [cfg EXCEPT !.databits = "DATABITS_5"])
                  ELSE IF databits = 6 THEN parseArgs(args, i + 2, [cfg EXCEPT !.databits = "DATABITS_6"])
                  ELSE IF databits = 7 THEN parseArgs(args, i + 2, [cfg EXCEPT !.databits = "DATABITS_7"])
                  ELSE IF databits = 6 THEN parseArgs(args, i + 2, [cfg EXCEPT !.databits = "DATABITS_8"])
                  ELSE ParseExit(cfg, -6)
        [] a = "-s" ->
             IF last THEN ParseNull(cfg)
             ELSE LET stopbits == atoi(v) IN
                  IF stopbits = 1 THEN parseArgs(args, i + 2, [cfg EXCEPT !.stopbits = "STOPBITS_1"])
                  ELSE IF stopbits = 2 THEN parseArgs(args, i + 2, [cfg EXCEPT !.stopbits = "STOPBITS_2"])
                  ELSE ParseExit(cfg, -7)
        [] a = "-k" ->
             IF last THEN ParseNull(cfg)
             ELSE IF v = "kaypro"     THEN parseArgs(args, i + 2, [cfg EXCEPT !.keymap = KEYMAP_KAYPRO])
             ELSE IF v = "media_keys" THEN parseArgs(args, i + 2, [cfg EXCEPT !.keymap = KEYMAP_MEDIA_KEYS])
             ELSE IF v = "ascii"      THEN parseArgs(args, i + 2, [cfg EXCEPT !.keymap = KEYMAP_ASCII])
             ELSE ParseExit(cfg, -8)
        [] a = "-f" -> parseArgs(args, i + 1, [cfg EXCEPT !.fork = TRUE])
        [] a = "-v" -> parseArgs(args, i + 1, [cfg EXCEPT !.verbose = TRUE])
        [] a = "-h" -> ParseExit(cfg, 0)
        [] OTHER    -> ParseExit(cfg, -9)
    ELSE parseArgs(args, i + 1, [cfg EXCEPT !.tty = a])

\* parseCommandLine with -v setting the fork flag as well
parseCommandLine_VerboseForks(args) ==
  LET r == parseArgs(args, 1, DefaultConfig)
  IN [r EXCEPT !.cfg.fork = r.cfg.fork \/ r.cfg.verbose]

parseCommandLine(args) == parseArgs(args, 1, DefaultConfig)

\* ------------------------------------------------------------ event sequencer
\* arguments of one emit(fd, type, code, val) call
Call(type, code, val) == [type |-> type, code |-> code, value |-> val]

SynReport == Call(EV_SYN, SYN_REPORT, 0)

\* emitKey with the key break written as a second make
emitKey_BreakAsMake(key) ==
  LET ctrlMake   == IF key.control
                    THEN <<Call(EV_KEY, KEY_LEFTCTRL, 1), SynReport>> ELSE <<>>
      shiftMake  == IF key.shift
                    THEN <<Call(EV_KEY, KEY_LEFTSHIFT, 1), SynReport>> ELSE <<>>
      keyEvents  == IF key.makebreak
                    THEN <<Call(EV_KEY, key.key, 1), SynReport,
                           Call(EV_KEY, key.key, 1), SynReport>>
                    ELSE <<Call(EV_KEY, LogicalAnd(key.key, 127),
                                        Shr7(LogicalAnd(key.key, 128))),
                           SynReport>>
      ctrlBreak  == IF key.control
                    THEN <<Call(EV_KEY, KEY_LEFTCTRL, 0), SynReport>> ELSE <<>>
      shiftBreak == IF key.shift
                    THEN <<Call(EV_KEY, KEY_LEFTSHIFT, 0), SynReport>> ELSE <<>>
  IN ctrlMake \o shiftMake \o keyEvents \o ctrlBreak \o shiftBreak

\* emitKey without the SYN_REPORT between key make and key break
emitKey_NoSyncAfterMake(key) ==
  LET ctrlMake   == IF key.control
                    THEN <<Call(EV_KEY, KEY_LEFTCTRL, 1), SynReport>> ELSE <<>>
      shiftMake  == IF key.shift
                    THEN <<Call(EV_KEY, KEY_LEFTSHIFT, 1), SynReport>> ELSE <<>>
      keyEvents  == IF key.makebreak
                    THEN <<Call(EV_KEY, key.key, 1),
                           Call(EV_KEY, key.key, 0), SynReport>>
                    ELSE <<Call(EV_KEY, LogicalAnd(key.key, 127),
                                        Shr7(LogicalAnd(key.key, 128))),
                           SynReport>>
      ctrlBreak  == IF key.control
                    THEN <<Call(EV_KEY, KEY_LEFTCTRL, 0), SynReport>> ELSE <<>>
      shiftBreak == IF key.shift
                    THEN <<Call(EV_KEY, KEY_LEFTSHIFT, 0), SynReport>> ELSE <<>>
  IN ctrlMake \o shiftMake \o keyEvents \o ctrlBreak \o shiftBreak

\* emitKey without the Shift break at its end
emitKey_NoShiftBreak(key) ==
  LET ctrlMake   == IF key.control
                    THEN <<Call(EV_KEY, KEY_LEFTCTRL, 1), SynReport>> ELSE <<>>
      shiftMake  == IF key.shift
                    THEN <<Call(EV_KEY, KEY_LEFTSHIFT, 1), SynReport>> ELSE <<>>
      keyEvents  == IF key.makebreak
                    THEN <<Call(EV_KEY, key.key, 1), SynReport,
                           Call(EV_KEY, key.key, 0), SynReport>>
                    ELSE <<Call(EV_KEY, LogicalAnd(key.key, 127),
                                        Shr7(LogicalAnd(key.key, 128))),
                           SynReport>>
      ctrlBreak  == IF key.control
                    THEN <<Call(EV_KEY, KEY_LEFTCTRL, 0), SynReport>> ELSE <<>>
  IN ctrlMake \o shiftMake \o keyEvents \o ctrlBreak

\* emitKey: the emit() calls it makes for *key, in program order
emitKey(key) ==
  LET ctrlMake   == IF key.control
                    THEN <<Call(EV_KEY, KEY_LEFTCTRL, 1), SynReport>> ELSE <<>>
      shiftMake  == IF key.shift
                    THEN <<Call(EV_KEY, KEY_LEFTSHIFT, 1), SynReport>> ELSE <<>>
      keyEvents  == IF key.makebreak
                    THEN <<Call(EV_KEY, key.key, 1), SynReport,
                           Call(EV_KEY, key.key, 0), SynReport>>
                    ELSE <<Call(EV_KEY, LogicalAnd(key.key, 127),
                                        Shr7(LogicalAnd(key.key, 128))),
                           SynReport>>
      ctrlBreak  == IF key.control
                    THEN <<Call(EV_KEY, KEY_LEFTCTRL, 0), SynReport>> ELSE <<>>
      shiftBreak == IF key.shift
                    THEN <<Call(EV_KEY, KEY_LEFTSHIFT, 0), SynReport>> ELSE <<>>
  IN ctrlMake \o shiftMake \o keyEvents \o ctrlBreak \o shiftBreak

\* struct input_event as emit() fills it from its int arguments
InputEvent(c) == [type |-> U16(c.type), code |-> U16(c.code), value |-> c.value]

\* ----------------------------------------------------------------- state
VARIABLES
  argv,         \* main's argv[1..argc-1]
  pc,           \* where main() is, or how the process ended
  charSigned,   \* the build: is plain char signed
  appConfig,    \* config_t appConfig
  ttyFd,        \* global int ttyFd
  ttyConfig,    \* global struct termios ttyConfig (saved configuration)
  fdSerial,     \* main's local fdSerial
  uinput_fd,    \* main's local uinput_fd
  errno,        \* 0, or 1 for any error number
  count,        \* what the last read() returned
  key,          \* main's local key
  step,         \* next emit() call of the emitKey in progress
  ret,          \* emit's local ret: what its write() returned
  return_code,  \* argument of the exitApp call in progress
  exitStatus,   \* status the process exited with
  ttyOpen,      \* the serial descriptor is open
  ttyTermios,   \* line configuration of the serial device
  ttyRestores,  \* successful tcsetattr(.., &ttyConfig) calls of closeSerial
  ttyCloses,    \* close() calls on the serial descriptor
  sinkOpen,     \* the uinput descriptor is open
  keybits,      \* key codes registered with UI_SET_KEYBIT
  devCreated,   \* UI_DEV_CREATE succeeded
  written,      \* events written to uinput in this iteration of the loop
  sinkPending,  \* EV_KEY events written since the last SYN_REPORT
  sinkDown      \* key codes the uinput device holds down

vars == <<argv, pc, charSigned, appConfig, ttyFd, ttyConfig, fdSerial, uinput_fd,
          errno, count, key, step, ret, return_code, exitStatus, ttyOpen,
          ttyTermios, ttyRestores, ttyCloses, sinkOpen, keybits, devCreated,
          written, sinkPending, sinkDown>>

tty == <<ttyOpen, ttyTermios, ttyRestores, ttyCloses>>
sink == <<sinkOpen, keybits, devCreated, written, sinkPending, sinkDown>>
loop == <<count, key, step, ret>>

\* the lookup one entry off: keymap[km][b + 1], wrapping at the row's end
KeymapEntry_OffByOne(km, b) ==
  LET e == keymap[km + 1][((b + 1) % KEYS_PER_MAP) + 1]
  IN [e EXCEPT !.key = CharOf(e.key, charSigned)]

\* &keymap[appConfig.keymap][key], its key field read as a char
KeymapEntry(km, b) ==
  LET e == keymap[km + 1][b + 1]
  IN [e EXCEPT !.key = CharOf(e.key, charSigned)]

\* the state main() starts in, whatever the command line
Start ==
  /\ pc = "parseCommandLine"
  /\ charSigned \in BOOLEAN
  /\ appConfig = DefaultConfig
  /\ ttyFd = 0
  /\ ttyConfig = "unset"
  /\ fdSerial = 0
  /\ uinput_fd = 0
  /\ errno = 0
  /\ count = 0
  /\ key = 0
  /\ step = 0
  /\ ret = "none"
  /\ return_code = 0
  /\ exitStatus = 0
  /\ ttyOpen = FALSE
  /\ ttyTermios = "original"
  /\ ttyRestores = 0
  /\ ttyCloses = 0
  /\ sinkOpen = FALSE
  /\ keybits = {}
  /\ devCreated = FALSE
  /\ written = <<>>
  /\ sinkPending = 0
  /\ sinkDown = {}

\* command lines the driver is run with through the read loop: no argument,
\* each switch once, each key map name
RunArgv ==
  { <<>>, <<"/dev/ttyS0">>, <<"-f">>, <<"-v">>, <<"-h">>, <<"-x">>, <<"-k">>,
    <<"-b", "9600">>, <<"-p", "odd">>, <<"-d", "7">>, <<"-s", "2">>,
    <<"-k", "kaypro">>, <<"-k", "media_keys">>, <<"-k", "ascii">>,
    <<"-k", "custom">> }

Init ==
  /\ argv \in RunArgv
  /\ Start

\* every command line of at most MaxArgs arguments
InitParse ==
  /\ argv \in ArgvSet
  /\ Start

\* a call exitApp(.., .., code): control moves into exitApp
CallExitApp(code) ==
  /\ pc' = "exitApp"
  /\ return_code' = code

\* main: parseCommandLine(argc, argv)
ParseCommandLine ==
  /\ pc = "parseCommandLine"
  /\ LET r == parseCommandLine(argv) IN
       /\ appConfig' = r.cfg
       /\ CASE r.end = "return"  -> pc' = "daemon" /\ UNCHANGED return_code
            [] r.end = "exitApp" -> CallExitApp(r.code)
            [] r.end = "null"    -> pc' = "crashed" /\ UNCHANGED return_code
  /\ UNCHANGED <<argv, charSigned, ttyFd, ttyConfig, fdSerial, uinput_fd, errno,
                 exitStatus, tty, sink, loop>>

\* main: if(appConfig.fork) daemon(0,1)
Daemon ==
  /\ pc = "daemon"
  /\ \/ \* not asked to fork, or daemon() succeeds
        /\ pc' = "openSerial"
        /\ UNCHANGED <<errno, return_code>>
     \/ \* daemon() fails
        /\ appConfig.fork
        /\ errno' = 1
        /\ CallExitApp(-1)
  /\ UNCHANGED <<argv, charSigned, appConfig, ttyFd, ttyConfig, fdSerial, uinput_fd,
                 exitStatus, tty, sink, loop>>

\* main: fdSerial = openSerial(...), which opens the device, saves its
\* configuration in ttyConfig and applies the new one
OpenSerial ==
  /\ pc = "openSerial"
  /\ \/ \* open() fails
        /\ errno' = 1
        /\ CallExitApp(-1)
        /\ UNCHANGED <<ttyConfig, fdSerial, ttyOpen, ttyTermios>>
     \/ \* tcgetattr() fails
        /\ ttyOpen' = TRUE
        /\ errno' = 1
        /\ CallExitApp(-1)
        /\ UNCHANGED <<ttyConfig, fdSerial, ttyTermios>>
     \/ \* tcsetattr() fails
        /\ ttyOpen' = TRUE
        /\ ttyConfig' = ttyTermios
        /\ errno' = 1
        /\ CallExitApp(-1)
        /\ UNCHANGED <<fdSerial, ttyTermios>>
     \/ \* all succeed
        /\ ttyOpen' = TRUE
        /\ ttyConfig' = ttyTermios
        /\ ttyTermios' = "configured"
        /\ fdSerial' = 3
        /\ pc' = "connectUinput"
        /\ UNCHANGED <<errno, return_code>>
  /\ UNCHANGED <<argv, charSigned, appConfig, ttyFd, uinput_fd, exitStatus,
                 ttyRestores, ttyCloses, sink, loop>>

\* key codes UI_SET_KEYBIT accepts (0..KEY_MAX)
ValidKeybit(k) == k >= 0 /\ k <= 767

\* the UI_SET_KEYBIT arguments connectUinput passes for key map km
KeybitRequests(km) ==
  {KeymapEntry(km, i).key : i \in {j \in 0..255 : KeymapEntry(km, j).key # KEY_RESERVED}}
    \cup {KEY_LEFTSHIFT, KEY_LEFTCTRL}

\* connectUinput registering the codes of the kaypro row whatever key map
\* was selected
ConnectUinput_RegistersKaypro ==
  /\ pc = "connectUinput"
  /\ \/ /\ errno' = 1
        /\ CallExitApp(-17)
        /\ UNCHANGED <<sinkOpen, keybits>>
     \/ \E ioctlOk \in BOOLEAN :
          LET req == KeybitRequests(KEYMAP_KAYPRO) IN
          /\ sinkOpen' = TRUE
          /\ keybits' = IF ioctlOk THEN {k \in req : ValidKeybit(k)} ELSE {}
          /\ errno' = IF ioctlOk /\ \A k \in req : ValidKeybit(k) THEN errno ELSE 1
          /\ pc' = "createDevice"
          /\ UNCHANGED return_code
  /\ UNCHANGED <<argv, charSigned, appConfig, ttyFd, ttyConfig, fdSerial, uinput_fd,
                 exitStatus, tty, devCreated, written, sinkPending,
                 sinkDown, loop>>

\* connectUinput, first part: open /dev/uinput and register the key codes;
\* no ioctl result is looked at
ConnectUinput ==
  /\ pc = "connectUinput"
  /\ \/ \* open("/dev/uinput") fails
        /\ errno' = 1
        /\ CallExitApp(-17)
        /\ UNCHANGED <<sinkOpen, keybits>>
     \/ \* the UI_SET_EVBIT and UI_SET_KEYBIT ioctls reach uinput, or all fail
        \E ioctlOk \in BOOLEAN :
          LET req == KeybitRequests(appConfig.keymap) IN
          /\ sinkOpen' = TRUE
          /\ keybits' = IF ioctlOk THEN {k \in req : ValidKeybit(k)} ELSE {}
          /\ errno' = IF ioctlOk /\ \A k \in req : ValidKeybit(k) THEN errno ELSE 1
          /\ pc' = "createDevice"
          /\ UNCHANGED return_code
  /\ UNCHANGED <<argv, charSigned, appConfig, ttyFd, ttyConfig, fdSerial, uinput_fd,
                 exitStatus, tty, devCreated, written, sinkPending,
                 sinkDown, loop>>

\* connectUinput, second part: UI_DEV_SETUP, UI_DEV_CREATE and return(fd);
\* again no ioctl result is looked at
CreateDevice ==
  /\ pc = "createDevice"
  /\ \E ioctlOk \in BOOLEAN :
       /\ devCreated' = ioctlOk
       /\ errno' = IF ioctlOk THEN errno ELSE 1
  /\ uinput_fd' = 4
  /\ pc' = "read"
  /\ UNCHANGED <<argv, charSigned, appConfig, ttyFd, ttyConfig, fdSerial,
                 return_code, exitStatus, tty, sinkOpen, keybits, written,
                 sinkPending, sinkDown, loop>>

\* the read step with byte 27 (ESC) ending the driver
Read_EscExits ==
  /\ pc = "read"
  /\ \/ \E b \in 0..255 :
          /\ count' = 1
          /\ key' = b
          /\ step' = 1
          /\ IF b = 27 THEN CallExitApp(0)
             ELSE pc' = "emitKey" /\ UNCHANGED return_code
          /\ UNCHANGED errno
     \/ /\ count' = 0
        /\ IF errno # 0 THEN CallExitApp(-2) ELSE CallExitApp(0)
        /\ UNCHANGED <<key, step, errno>>
     \/ \E b \in 0..255 :
          /\ count' = -1
          /\ errno' = 1
          /\ key' = b
          /\ step' = 1
          /\ pc' = "emitKey"
          /\ UNCHANGED return_code
  /\ UNCHANGED <<argv, charSigned, appConfig, ttyFd, ttyConfig, fdSerial, uinput_fd,
                 exitStatus, tty, sink, ret>>

\* main loop: count = read(fdSerial, &key, 1) and the test on count
Read ==
  /\ pc = "read"
  /\ \/ \* one byte is read
        \E b \in 0..255 :
          /\ count' = 1
          /\ key' = b
          /\ step' = 1
          /\ pc' = "emitKey"
          /\ UNCHANGED <<errno, return_code>>
     \/ \* read() returns 0
        /\ count' = 0
        /\ IF errno # 0 THEN CallExitApp(-2) ELSE CallExitApp(0)
        /\ UNCHANGED <<key, step, errno>>
     \/ \* read() returns -1: count, a size_t, is not 0, and key was not
        \* written by read, so the new iteration's key is indeterminate
        \E b \in 0..255 :
          /\ count' = -1
          /\ errno' = 1
          /\ key' = b
          /\ step' = 1
          /\ pc' = "emitKey"
          /\ UNCHANGED return_code
  /\ UNCHANGED <<argv, charSigned, appConfig, ttyFd, ttyConfig, fdSerial, uinput_fd,
                 exitStatus, tty, sink, ret>>

\* emitKey(uinput_fd, &keymap[appConfig.keymap][key]) in progress
CurrentCalls == emitKey(KeymapEntry(appConfig.keymap, key))

\* emit without the exitApp call: after a failed write emitKey goes on
Emit_GoesOnAfterFailure ==
  /\ pc = "emitKey"
  /\ LET ie == InputEvent(CurrentCalls[step]) IN
     \/ /\ written' = Append(written, ie)
        /\ sinkPending' = IF ie.type = EV_KEY THEN sinkPending + 1
                          ELSE IF ie.type = EV_SYN /\ ie.code = SYN_REPORT THEN 0
                          ELSE sinkPending
        /\ sinkDown' = IF ie.type # EV_KEY THEN sinkDown
                       ELSE IF ie.value = 0 THEN sinkDown \ {ie.code}
                       ELSE sinkDown \cup {ie.code}
        /\ ret' = "sizeof(ie)"
        /\ UNCHANGED errno
     \/ /\ ret' = "other"
        /\ errno' = 1
        /\ UNCHANGED <<written, sinkPending, sinkDown>>
  /\ IF step = Len(CurrentCalls)
     THEN pc' = "while" /\ step' = 0
     ELSE pc' = "emitKey" /\ step' = step + 1
  /\ UNCHANGED <<argv, charSigned, appConfig, ttyFd, ttyConfig, fdSerial, uinput_fd,
                 return_code, exitStatus, tty, sinkOpen, keybits, devCreated,
                 count, key>>

\* one emit(): the write() of one input_event, fatal when it fails or is short
Emit ==
  /\ pc = "emitKey"
  /\ LET ie == InputEvent(CurrentCalls[step]) IN
     \/ /\ written' = Append(written, ie)
        /\ sinkPending' = IF ie.type = EV_KEY THEN sinkPending + 1
                          ELSE IF ie.type = EV_SYN /\ ie.code = SYN_REPORT THEN 0
                          ELSE sinkPending
        /\ sinkDown' = IF ie.type # EV_KEY THEN sinkDown
                       ELSE IF ie.value = 0 THEN sinkDown \ {ie.code}
                       ELSE sinkDown \cup {ie.code}
        /\ IF step = Len(CurrentCalls)
           THEN pc' = "while" /\ step' = 0
           ELSE pc' = "emitKey" /\ step' = step + 1
        /\ ret' = "sizeof(ie)"
        /\ UNCHANGED <<errno, return_code>>
     \/ /\ ret' = "other"
        /\ errno' = 1
        /\ CallExitApp(-12)
        /\ UNCHANGED <<written, sinkPending, sinkDown, step>>
  /\ UNCHANGED <<argv, charSigned, appConfig, ttyFd, ttyConfig, fdSerial, uinput_fd,
                 exitStatus, tty, sinkOpen, keybits, devCreated, count, key>>

\* } while(true): the iteration ends, and with it the lifetime of its
\* locals count and key
While ==
  /\ pc = "while"
  /\ pc' = "read"
  /\ count' = 0
  /\ key' = 0
  /\ written' = <<>>
  /\ UNCHANGED <<argv, charSigned, appConfig, ttyFd, ttyConfig, fdSerial, uinput_fd,
                 errno, step, ret, return_code, exitStatus, tty, sinkOpen,
                 keybits, devCreated, sinkPending, sinkDown>>

\* exit(return_code): the status is the low 8 bits; the kernel closes what
\* is still open
Exit(code) ==
  /\ pc' = "exited"
  /\ exitStatus' = code % 256
  /\ sinkOpen' = FALSE

\* exitApp as it would run with ttyFd holding the serial descriptor:
\* closeSerial is always called
ExitApp_ClosesSerial ==
  /\ pc = "exitApp"
  /\ \/ /\ ttyTermios' = ttyConfig
        /\ ttyRestores' = ttyRestores + 1
        /\ ttyCloses' = ttyCloses + 1
        /\ ttyOpen' = FALSE
        /\ Exit(return_code)
        /\ UNCHANGED <<errno, return_code>>
     \/ /\ errno' = 1
        /\ CallExitApp(-1)
        /\ UNCHANGED <<tty, exitStatus, sinkOpen>>
  /\ UNCHANGED <<argv, charSigned, appConfig, ttyFd, ttyConfig, fdSerial, uinput_fd,
                 keybits, devCreated, written, sinkPending,
                 sinkDown, loop>>

\* exitApp, with the closeSerial(ttyFd) it calls when ttyFd > 0
ExitApp ==
  /\ pc = "exitApp"
  /\ IF ttyFd > 0
     THEN \/ \* closeSerial: configuration restored, descriptor closed
             /\ ttyTermios' = ttyConfig
             /\ ttyRestores' = ttyRestores + 1
             /\ ttyCloses' = ttyCloses + 1
             /\ ttyOpen' = FALSE
             /\ Exit(return_code)
             /\ UNCHANGED <<errno, return_code>>
          \/ \* closeSerial: tcsetattr fails, exitApp is called again
             /\ errno' = 1
             /\ CallExitApp(-1)
             /\ UNCHANGED <<tty, exitStatus, sinkOpen>>
     ELSE /\ Exit(return_code)
          /\ ttyOpen' = FALSE
          /\ UNCHANGED <<errno, return_code, ttyTermios, ttyRestores, ttyCloses>>
  /\ UNCHANGED <<argv, charSigned, appConfig, ttyFd, ttyConfig, fdSerial, uinput_fd,
                 keybits, devCreated, written, sinkPending,
                 sinkDown, loop>>

\* a termination signal (SIGTERM, SIGINT, SIGHUP) is delivered: the program
\* installs no handler, so the default action ends the process at once and
\* the kernel closes its descriptors
Signal ==
  /\ pc \notin {"exited", "crashed", "killed"}
  /\ pc' = "killed"
  /\ ttyOpen' = FALSE
  /\ sinkOpen' = FALSE
  /\ UNCHANGED <<argv, charSigned, appConfig, ttyFd, ttyConfig, fdSerial, uinput_fd,
                 errno, return_code, exitStatus, ttyTermios, ttyRestores,
                 ttyCloses, keybits, devCreated, written, sinkPending,
                 sinkDown, loop>>

Next ==
  \/ ParseCommandLine
  \/ Daemon
  \/ OpenSerial
  \/ ConnectUinput
  \/ CreateDevice
  \/ Read
  \/ Emit
  \/ While
  \/ ExitApp
  \/ Signal

Spec == Init /\ [][Next]_vars

\* start-up only, up to the first read(), for every command line
NextParse ==
  \/ ParseCommandLine
  \/ Daemon
  \/ OpenSerial
  \/ ConnectUinput
  \/ CreateDevice
  \/ ExitApp

SpecParse == InitParse /\ [][NextParse]_vars

\* ------------------------------------------------------------ properties
\* the key map entry the loop iteration in progress works on
CurrentKey == KeymapEntry(appConfig.keymap, key)

\* an event as it reaches the sink
Event(type, code, val) == [type |-> type, code |-> code, value |-> val]
Sync == Event(EV_SYN, SYN_REPORT, 0)
CtrlDown == Event(EV_KEY, KEY_LEFTCTRL, 1)
CtrlUp == Event(EV_KEY, KEY_LEFTCTRL, 0)
ShiftDown == Event(EV_KEY, KEY_LEFTSHIFT, 1)
ShiftUp == Event(EV_KEY, KEY_LEFTSHIFT, 0)

\* positions in `written' of the event e
At(e) == {i \in 1..Len(written) : written[i] = e}

\* positions in `written' of the EV_KEY events that are not modifier events
KeyTransitions ==
  {i \in 1..Len(written) :
     /\ written[i].type = EV_KEY
     /\ written[i].code \notin {KEY_LEFTCTRL, KEY_LEFTSHIFT}}

IsPrefix(s, t) == Len(s) <= Len(t) /\ \A i \in 1..Len(s) : s[i] = t[i]

\* C1: when emitKey has returned for an entry that needs Control and Shift,
\* it wrote Control-down, then Shift-down, then the key transition(s), then
\* Shift-up and last Control-up, each of the four modifier events once.
C1_ModifiersNested ==
  (pc = "while" /\ CurrentKey.control /\ CurrentKey.shift) =>
    \E cd \in At(CtrlDown), sd \in At(ShiftDown), su \in At(ShiftUp), cu \in At(CtrlUp) :
      /\ At(CtrlDown) = {cd} /\ At(ShiftDown) = {sd}
      /\ At(ShiftUp) = {su} /\ At(CtrlUp) = {cu}
      /\ cd < sd
      /\ \A k \in KeyTransitions : sd < k /\ k < su
      /\ su < cu

\* C2: while and after a byte whose entry holds KEY_RESERVED is processed,
\* nothing has been written to the sink for it.
C2_ReservedWritesNothing ==
  (pc \in {"emitKey", "while"} /\ CurrentKey.key = KEY_RESERVED) => written = <<>>

\* C3: when emitKey has returned for a makebreak entry with a code other than
\* KEY_RESERVED, the events written for that code are exactly a key-down,
\* then (after its SYN_REPORT) a key-up, the key-up followed by a SYN_REPORT.
C3_MakeBreakPair ==
  (pc = "while" /\ CurrentKey.makebreak /\ CurrentKey.key # KEY_RESERVED) =>
    LET code == U16(CurrentKey.key)
        forCode == {i \in 1..Len(written) :
                      written[i].type = EV_KEY /\ written[i].code = code}
    IN \E i \in forCode :
         /\ forCode = {i, i + 2}
         /\ written[i].value = 1
         /\ written[i + 1] = Sync
         /\ written[i + 2].value = 0
         /\ written[i + 3] = Sync

\* a makebreak entry that also needs both modifiers has been emitted in full
C3_Witness ==
  /\ pc = "while"
  /\ CurrentKey.makebreak /\ CurrentKey.key # KEY_RESERVED
  /\ CurrentKey.control /\ CurrentKey.shift
  /\ Len(written) = 12

\* C4: under key map kaypro, what is written for byte 65 is never anything
\* but a prefix of Shift-down, sync, A-down, sync, A-up, sync, Shift-up, sync,
\* and is all of it when emitKey has returned; likewise for byte 1 with
\* Control in place of Shift.
C4_KayproScenarios ==
  LET a65 == <<ShiftDown, Sync, Event(EV_KEY, KEY_A, 1), Sync,
               Event(EV_KEY, KEY_A, 0), Sync, ShiftUp, Sync>>
      a1  == <<CtrlDown, Sync, Event(EV_KEY, KEY_A, 1), Sync,
               Event(EV_KEY, KEY_A, 0), Sync, CtrlUp, Sync>>
  IN (appConfig.keymap = KEYMAP_KAYPRO
      /\ pc \in {"emitKey", "while", "exitApp", "exited", "killed"}) =>
       /\ key = 65 => IsPrefix(written, a65) /\ (pc = "while" => written = a65)
       /\ key = 1  => IsPrefix(written, a1)  /\ (pc = "while" => written = a1)

\* byte 65 was read under kaypro and emitKey has returned
C4_Witness ==
  /\ pc = "while" /\ count = 1 /\ key = 65
  /\ appConfig.keymap = KEYMAP_KAYPRO
  /\ Len(written) = 8

\* C5: the sink never holds more than one EV_KEY event not yet followed by a
\* SYN_REPORT, and none between two emitKey calls; in what an iteration wrote,
\* the write after an EV_KEY is always a SYN_REPORT.
C5_SyncAfterEveryKey ==
  /\ sinkPending <= 1
  /\ pc \in {"read", "while"} => sinkPending = 0
  /\ \A i \in 1..Len(written) :
       written[i].type = EV_KEY =>
         /\ i < Len(written) => written[i + 1] = Sync
         /\ i = Len(written) => pc \in {"emitKey", "exitApp", "exited", "killed"}

\* an entry without makebreak that needs both modifiers has been emitted
C5_Witness ==
  /\ pc = "while"
  /\ ~CurrentKey.makebreak /\ CurrentKey.control /\ CurrentKey.shift
  /\ Len(written) = 10

\* C6: when emitKey has returned for an entry without makebreak, it wrote
\* exactly one key transition, with value = bit 7 of the entry's key code and
\* code = the low 7 bits of the entry's key code.
C6_HighBitPolarity ==
  (pc = "while" /\ ~CurrentKey.makebreak) =>
    \E i \in KeyTransitions :
      /\ KeyTransitions = {i}
      /\ written[i].value = (CurrentKey.key % 256) \div 128
      /\ written[i].code = CurrentKey.key % 128

WasRunning == fdSerial > 0 /\ uinput_fd > 0

\* C8: when the process has exited after a read() that returned 0 with errno
\* clear, the serial
\* device has its original configuration back, restored by the driver, and
\* the exit status is 0.
C8_EndOfStreamRestoresAndExitsZero ==
  (pc = "exited" /\ WasRunning /\ count = 0 /\ errno = 0) =>
    /\ ttyTermios = "original"
    /\ ttyRestores >= 1
    /\ exitStatus = 0

\* C9: after a read() that returned -1 nothing is written to the sink, the
\* driver is on its way out, and the status it exits with is neither 0 nor
\* one of the statuses of the command-line errors.
C9_ReadErrorIsFatal ==
  count = -1 =>
    /\ written = <<>>
    /\ pc \in {"exitApp", "exited"}
    /\ pc = "exited" =>
         /\ exitStatus # 0
         /\ exitStatus \notin {c % 256 : c \in {-4, -5, -6, -7, -8, -9, -11}}

\* C10: when the process has exited after both devices were acquired, the
\* serial device has its original configuration, its descriptor is closed and
\* was closed at most once, and the uinput descriptor is released.
C10_TeardownOnEveryExit ==
  (pc = "exited" /\ WasRunning) =>
    /\ ttyTermios = "original"
    /\ ~ttyOpen /\ ttyCloses <= 1
    /\ ~sinkOpen

\* the read loop: blocked in read(), inside emitKey, or at the loop's end
Running == {"read", "emitKey", "while"}

\* neither device has been touched
NothingOpened ==
  /\ ~ttyOpen /\ fdSerial = 0 /\ ttyTermios = "original"
  /\ ~sinkOpen /\ uinput_fd = 0

\* argv[i] is read as a switch when only flags and device names precede it
SwitchAt(i) ==
  /\ i \in 1..Len(argv)
  /\ \A j \in 1..(i - 1) : argv[j] \in {"-f", "-v"} \cup Operands

\* C11: when the process has exited because /dev/uinput could not be opened,
\* after openSerial had opened and configured the serial device, the device
\* has its original configuration back, restored by the driver, its
\* descriptor is closed and the exit status is not 0.
C11_SinkOpenFailureRestoresTransport ==
  (pc = "exited" /\ return_code = -17 /\ fdSerial > 0) =>
    /\ ttyTermios = "original"
    /\ ttyRestores >= 1
    /\ ~ttyOpen
    /\ exitStatus # 0

\* C12: a step in which a termination signal ends the process while it is in
\* the read loop leaves the serial device in its original configuration and
\* the uinput device released.
C12_SignalDrains ==
  [][(pc \in Running /\ pc' = "killed") =>
       (ttyTermios' = "original" /\ ~sinkOpen')]_vars

\* C13: once a write to the sink has failed or was short, no step writes
\* anything more to the sink, the driver only proceeds to its exit, and the
\* status it exits with is not 0.
C13_FailedWriteIsFatal ==
  [][/\ ret = "other" =>
          /\ written' = written
          /\ sinkPending' = sinkPending
          /\ pc' \in {"exitApp", "exited", "killed"}
     /\ (ret' = "other" /\ pc' = "exited") => exitStatus' # 0]_vars

\* a write failed after a key event that was never followed by its
\* SYN_REPORT, and the process has exited
C13_Witness ==
  /\ pc = "exited"
  /\ ret = "other"
  /\ sinkPending = 1
  /\ written # <<>>

\* C14: after parsing a command line that starts with -k <name>: if the name
\* is kaypro, media_keys, ascii or custom the matching key map is selected
\* and there is no invalid-key-map error; for any other name the driver is in
\* exitApp with the invalid-key-map code, or has exited, and no device was
\* ever opened.
C14_KeymapSelection ==
  (pc # "parseCommandLine" /\ Len(argv) >= 2 /\ argv[1] = "-k") =>
    IF argv[2] \in {"kaypro", "media_keys", "ascii", "custom"}
    THEN /\ appConfig.keymap = CASE argv[2] = "kaypro"     -> KEYMAP_KAYPRO
                                 [] argv[2] = "media_keys" -> KEYMAP_MEDIA_KEYS
                                 [] argv[2] = "ascii"      -> KEYMAP_ASCII
                                 [] argv[2] = "custom"     -> KEYMAP_CUSTOM
         /\ return_code # -8
    ELSE /\ return_code = -8
         /\ pc \in {"exitApp", "exited"}
         /\ NothingOpened

\* C15: after parsing a command line with -b <value> read as a switch: if the
\* value is a rate of the speeds table the configured speed is that rate's
\* and there is no Invalid Baudrate error; for any other value the driver is
\* in exitApp with the Invalid Baudrate code, or has exited, and no device
\* was ever opened.
C15_BaudrateValidation ==
  \A i \in 1..(Len(argv) - 1) :
    (pc # "parseCommandLine" /\ SwitchAt(i) /\ argv[i] = "-b") =>
      LET rate == {j \in 1..Len(speeds) : speeds[j].baudrate = atoi(argv[i + 1])}
      IN IF rate # {}
         THEN /\ \E j \in rate : appConfig.speed = speeds[j].speed
              /\ return_code # -4
         ELSE /\ return_code = -4
              /\ pc \in {"exitApp", "exited"}
              /\ NothingOpened

\* C16: after parsing a command line with -d <value> read as a switch: for
\* the values 5, 6, 7 and 8 the configured data bits are DATABITS_5 ..
\* DATABITS_8 and there is no Invalid data bits error; for any other value
\* the driver is in exitApp with the Invalid data bits code, or has exited.
C16_DatabitsValidation ==
  \A i \in 1..(Len(argv) - 1) :
    (pc # "parseCommandLine" /\ SwitchAt(i) /\ argv[i] = "-d") =>
      LET d == atoi(argv[i + 1])
      IN IF d \in 5..8
         THEN /\ appConfig.databits = CASE d = 5 -> "DATABITS_5"
                                        [] d = 6 -> "DATABITS_6"
                                        [] d = 7 -> "DATABITS_7"
                                        [] d = 8 -> "DATABITS_8"
              /\ return_code # -6
         ELSE /\ return_code = -6
              /\ pc \in {"exitApp", "exited"}

\* C17: a read() that delivers a byte, whatever its value, is followed by
\* emitKey; the end of a loop iteration is followed by the next read(); and
\* the driver itself leaves the read loop only from a read() that returned 0
\* or -1 or from a write() to the sink that failed (a signal that kills the
\* process is not a step of the driver).
C17_NoByteTerminates ==
  [][/\ (pc = "read" /\ count' = 1) => pc' = "emitKey"
     /\ (pc = "while" /\ pc' # "killed") => pc' = "read"
     /\ (pc \in Running /\ pc' \notin (Running \cup {"killed"})) =>
          \/ pc = "read" /\ count' \in {0, -1}
          \/ pc = "emitKey" /\ ret' = "other"]_vars

\* byte 27 was read and processed in full, and the loop goes on
C17_Witness ==
  /\ pc = "while"
  /\ count = 1
  /\ key = 27
  /\ written # <<>>

\* C18: in the read loop the serial device is open with the driver's
\* configuration applied and the uinput device is open and was created; and
\* an exit caused by a failed acquisition step has a status other than 0.
C18_RunningOnlyAfterAcquisition ==
  /\ pc \in Running =>
       /\ ttyOpen /\ ttyTermios = "configured" /\ fdSerial > 0
       /\ sinkOpen /\ uinput_fd > 0 /\ devCreated
  /\ (pc = "exited" /\ ~WasRunning /\ return_code \in {-1, -17}) => exitStatus # 0

\* C19: when connectUinput is about to issue UI_DEV_SETUP and UI_DEV_CREATE,
\* and its registrations reached uinput (that of left Control did), the
\* registered key codes are exactly the KEY_* codes other than KEY_RESERVED
\* of the 256 entries of the selected key map, with left Control and left
\* Shift.
C19_RegisteredCodes ==
  (pc = "createDevice" /\ KEY_LEFTCTRL \in keybits) =>
    keybits = ({keymap[appConfig.keymap + 1][i].key : i \in 1..KEYS_PER_MAP}
                 \ {KEY_RESERVED})
              \cup {KEY_LEFTCTRL, KEY_LEFTSHIFT}

\* C20: the selected key map is always a row of keymap and key a column of
\* it, every row has KEYS_PER_MAP entries, and in the read loop
\* keymap[appConfig.keymap][key] is an entry with a key code and three flags.
C20_LookupInBounds ==
  /\ appConfig.keymap \in 0..(KEYMAPS - 1)
  /\ key \in 0..(KEYS_PER_MAP - 1)
  /\ Len(keymap) = KEYMAPS
  /\ Len(keymap[appConfig.keymap + 1]) = KEYS_PER_MAP
  /\ pc \in Running =>
       /\ DOMAIN keymap[appConfig.keymap + 1][key + 1]
            = {"key", "control", "shift", "makebreak"}
       /\ keymap[appConfig.keymap + 1][key + 1].key \in 0..767
       /\ keymap[appConfig.keymap + 1][key + 1].control \in BOOLEAN
       /\ keymap[appConfig.keymap + 1][key + 1].shift \in BOOLEAN
       /\ keymap[appConfig.keymap + 1][key + 1].makebreak \in BOOLEAN

\* the last byte value is being looked up in the last key map -k can select
C20_Witness ==
  /\ pc = "emitKey"
  /\ count = 1
  /\ key = 255
  /\ appConfig.keymap = KEYMAP_MEDIA_KEYS

\* why the process exited, read off the state it exited in
ExitClass ==
  IF parseCommandLine(argv).end = "exitApp"
  THEN IF \E i \in 1..Len(argv) : argv[i] = "-h" THEN "help" ELSE "configuration"
  ELSE IF fdSerial = 0
  THEN IF appConfig.fork THEN "daemon or transport" ELSE "transport"
  ELSE IF uinput_fd = 0 THEN "sink"
  ELSE IF ret = "other" THEN "emit"
  ELSE IF count = 0 THEN "end-of-stream"
  ELSE "read"

\* C21: the process exits with status 0 after a read() that returned 0, and
\* with a status other than 0 after every error; the statuses of a transport
\* failure, a sink failure, a read error, an emit failure and a
\* configuration error are taken from five sets no two of which share a
\* status.
C21_ExitStatusByClass ==
  pc = "exited" =>
    /\ ExitClass = "end-of-stream" => exitStatus = 0
    /\ ExitClass \notin {"end-of-stream", "help"} => exitStatus # 0
    /\ ExitClass = "transport" => exitStatus = 255
    /\ ExitClass = "read" => exitStatus = 254
    /\ ExitClass = "configuration" => exitStatus \in 245..252
    /\ ExitClass = "emit" => exitStatus = 244
    /\ ExitClass = "sink" => exitStatus = 239

\* the input_events of the emitKey call in progress, in program order
CurrentEvents == [i \in 1..Len(CurrentCalls) |-> InputEvent(CurrentCalls[i])]

\* C22: what a loop iteration has written to the sink is a prefix of the
\* event sequence of the byte its read() delivered, and all of that sequence
\* when the iteration ends and the next read() is due; an iteration whose
\* read() delivered no byte writes nothing.
C22_EventsPerDeliveredByte ==
  /\ count = 1 => IsPrefix(written, CurrentEvents)
  /\ (count = 1 /\ pc = "while") => written = CurrentEvents
  /\ count # 1 => written = <<>>
  /\ pc = "read" => written = <<>>

\* the entry of the keymap table the iteration in progress looks up, with the
\* KEY_* constant as the table's initialiser gives it
TableEntry == keymap[appConfig.keymap + 1][key + 1]

\* C23: when emitKey has returned for a makebreak entry, the code of every
\* key transition it wrote is the value of the entry's KEY_* constant; and
\* when the registrations of connectUinput reached uinput, the value of the
\* KEY_* constant of every entry other than KEY_RESERVED is registered,
\* constants above 127 included.
C23_CodesAreTableValues ==
  /\ (pc = "while" /\ TableEntry.makebreak) =>
       /\ KeyTransitions # {}
       /\ \A i \in KeyTransitions : written[i].code = TableEntry.key
  /\ (pc = "createDevice" /\ KEY_LEFTCTRL \in keybits) =>
       \A b \in 1..KEYS_PER_MAP :
         LET k == keymap[appConfig.keymap + 1][b].key
         IN k # KEY_RESERVED => k \in keybits

\* C24: ttyConfig is written only while it is still unset, by the step that
\* opens the serial device, and receives the configuration the device had
\* before the driver's own was applied; and when the process exits with the
\* device configured by the driver, that step restores the device to the
\* saved configuration.
C24_SavedConfigWriteOnceReadOnce ==
  [][/\ ttyConfig' # ttyConfig =>
          /\ ttyConfig = "unset"
          /\ ~ttyOpen /\ ttyOpen'
          /\ ttyTermios = "original"
          /\ ttyConfig' = ttyTermios
     /\ (pc # "exited" /\ pc' = "exited"
         /\ ttyConfig # "unset" /\ ttyTermios # ttyConfig) =>
          /\ ttyTermios' = ttyConfig
          /\ ttyRestores' = ttyRestores + 1]_vars

\* C25: appConfig.keymap is written only by parseCommandLine, while no device
\* is open, and no later step changes appConfig; the key codes registered
\* with the sink are those connectUinput requests for the row
\* keymap[appConfig.keymap], and what a loop iteration writes for a byte
\* read is taken from the entry of that same row.
C25_KeymapFixedAtStartup ==
  [][/\ appConfig' # appConfig => (pc = "parseCommandLine" /\ NothingOpened)
     /\ pc \in Running => appConfig' = appConfig
     /\ (pc' \in Running /\ KEY_LEFTCTRL \in keybits') =>
          /\ keybits' = {k \in KeybitRequests(appConfig'.keymap) : ValidKeybit(k)}
          /\ keybits' = keybits
     /\ (pc' \in Running /\ count' = 1) => IsPrefix(written', CurrentEvents')]_vars

\* under a key map other than the default a byte was read and processed in
\* full, with the registrations in place
C25_Witness ==
  /\ pc = "while"
  /\ count = 1
  /\ appConfig.keymap = KEYMAP_MEDIA_KEYS
  /\ written = CurrentEvents
  /\ KEY_LEFTCTRL \in keybits

\* the switch s occurs nowhere on the command line
NotGiven(s) == \A i \in 1..Len(argv) : argv[i] # s

\* C26: when parseCommandLine has returned, every field of appConfig whose
\* switch occurs nowhere on the command line holds its default: B300, no
\* parity, 8 data bits, 1 stop bit, key map kaypro, no fork, not verbose.
C26_OptionsChangeOnlyOwnField ==
  pc = "daemon" =>
    /\ NotGiven("-b") => appConfig.speed = "B300"
    /\ NotGiven("-p") => appConfig.parity = "PARITY_NONE"
    /\ NotGiven("-d") => appConfig.databits = "DATABITS_8"
    /\ NotGiven("-s") => appConfig.stopbits = "STOPBITS_1"
    /\ NotGiven("-k") => appConfig.keymap = KEYMAP_KAYPRO
    /\ NotGiven("-f") => appConfig.fork = FALSE
    /\ NotGiven("-v") => appConfig.verbose = FALSE

\* -v was the only switch given, and it was taken
C26_Witness ==
  /\ pc = "daemon"
  /\ argv = <<"-v", "/dev/ttyS0">>
  /\ appConfig = [DefaultConfig EXCEPT !.verbose = TRUE, !.tty = "/dev/ttyS0"]

\* C27: with the device created and the registrations of connectUinput in
\* place, the code of every EV_KEY event written for a byte read is one of
\* the registered key codes.
C27_WrittenCodesAreRegistered ==
  (devCreated /\ KEY_LEFTCTRL \in keybits /\ count = 1) =>
    \A i \in 1..Len(written) :
      written[i].type = EV_KEY => written[i].code \in keybits

\* the step writes one more event to the sink
Writes == Len(written') = Len(written) + 1

\* the event the step writes
Written == written'[Len(written')]

\* C28: every key-down written for a byte read is for a code that is up at
\* the sink, and every key-up is for a code that is down: per code the
\* transitions alternate, beginning with down.
C28_TransitionsAlternate ==
  [][(Writes /\ count = 1 /\ Written.type = EV_KEY) =>
       /\ Written.value = 1 => Written.code \notin sinkDown
       /\ Written.value = 0 => Written.code \in sinkDown]_vars

\* C29: when emitKey has returned and while the driver waits in read(),
\* neither left Control nor left Shift is down at the sink; every
\* modifier-down the iteration wrote is followed by the up of that modifier.
C29_NoModifierDownAtRead ==
  pc \in {"read", "while"} =>
    /\ KEY_LEFTCTRL \notin sinkDown
    /\ KEY_LEFTSHIFT \notin sinkDown
    /\ \A d \in At(CtrlDown) : \E u \in At(CtrlUp) : d < u
    /\ \A d \in At(ShiftDown) : \E u \in At(ShiftUp) : d < u

\* an entry that needs both modifiers has been emitted and the next read()
\* is due
C29_Witness ==
  /\ pc = "while"
  /\ At(CtrlDown) # {} /\ At(ShiftDown) # {}
  /\ sinkDown = {}

C31_EndOfStreamIgnoresStaleErrno ==
  (WasRunning /\ count = 0 /\ ret # "other" /\ pc \in {"exitApp", "exited"}) =>
    /\ return_code = 0
    /\ pc = "exited" => exitStatus = 0

\* C32: a step taken inside exitApp ends the process: exitApp is never
\* entered again from exitApp, whatever it was called with and whether or
\* not the serial device is open.
C32_ExitAppTerminates ==
  [][pc = "exitApp" => pc' \in {"exited", "killed"}]_vars

\* exitApp was called after a failed write, with the serial device open and
\* configured, and the process has exited
C32_Witness ==
  /\ pc = "exited"
  /\ ret = "other"
  /\ fdSerial > 0
  /\ ttyTermios = "configured"
  /\ exitStatus = 244

====
